---- MODULE Spec2Model ----
(***************************************************************************)
(* A model of the creedsolo Reed-Solomon codec (src/src/creedsolo/         *)
(* creedsolo.pyx): the process-wide Galois-field tables, the polynomial    *)
(* helpers, the chunk encoder and decoder, and the RSCodec facade.         *)
(*                                                                         *)
(* Python sequences are modelled as TLA+ sequences: the Python element     *)
(* s[i] is the TLA+ element s[i + 1].                                      *)
(***************************************************************************)
EXTENDS Integers, Sequences, FiniteSets, TLC

VARIABLES
    gf_exp,        \* process-wide anti-log table (creedsolo.pyx:131)
    gf_log,        \* process-wide log table (creedsolo.pyx:133)
    field_charac,  \* process-wide field characteristic (creedsolo.pyx:135)
    pc,            \* position of the low-level (README "full control") session
    par,           \* parameters of the session: prim, generator, c_exp, fcr, nsym
    mes,           \* the message handed to rs_encode_msg
    mesecc,        \* the codeword rs_encode_msg returned
    rcv,           \* the chunk as received (after tampering)
    erase_pos,     \* erasure positions handed to rs_correct_msg, caller's order
    errs,          \* positions tampered without telling the decoder
    only_erasures, \* the flag of the last rs_correct_msg call
    out,           \* outcome of the last rs_correct_msg call
    codecs,        \* the RSCodec instances and their fields
    cpc,           \* position of the RSCodec session: idle, running, returned, raised
    call,          \* the RSCodec method call in progress (or the last one)
    res,           \* what the last RSCodec method call returned or raised
    stream,        \* the encoded stream on its way to decode or check
    stream_erase,  \* erasure positions reported for the stream, caller's order
    stream_errs,   \* positions of the stream changed without notice
    enc_gen,       \* rs_encode_msg in steps: the generator polynomial gen
    enc_lgen,      \* rs_encode_msg in steps: lgen, the logarithms of gen
    enc_out,       \* rs_encode_msg in steps: the working buffer msg_out
    enc_i,         \* rs_encode_msg in steps: the index i of the outer loop
    enc_lcoef,     \* rs_encode_msg in steps: lcoef of the outer iteration
    enc_at,        \* position of each iteration j of the running prange loop
    enc_reg,       \* the value iteration j read from msg_out[i + j]
    enc_mixed,     \* some iteration j finished before a lower one
    thr_p,         \* a polynomial function in steps: its first argument
    thr_q,         \* a polynomial function in steps: its second argument
    thr_buf,       \* a polynomial function in steps: the shared buffer (r, msg_out)
    thr_at,        \* position of each iteration of the outer prange loop
    thr_reg,       \* the value each outer iteration last read from the buffer
    thr_coef       \* coef of each outer iteration of the division

chunk_vars == <<pc, par, mes, mesecc, rcv, erase_pos, errs, only_erasures, out>>

codec_vars == <<codecs, cpc, call, res, stream, stream_erase, stream_errs>>

par_vars == <<enc_gen, enc_lgen, enc_out, enc_i, enc_lcoef, enc_at, enc_reg,
              enc_mixed>>

thr_vars == <<thr_p, thr_q, thr_buf, thr_at, thr_reg, thr_coef>>

vars == <<gf_exp, gf_log, field_charac, pc, par, mes, mesecc, rcv, erase_pos,
          errs, only_erasures, out, codecs, cpc, call, res, stream,
          stream_erase, stream_errs, enc_gen, enc_lgen, enc_out, enc_i,
          enc_lcoef, enc_at, enc_reg, enc_mixed, thr_p, thr_q, thr_buf,
          thr_at, thr_reg, thr_coef>>

-----------------------------------------------------------------------------
(* Bounds of the model.                                                    *)

MaxMsgLen == 2      \* longest message handed to the chunk encoder
MaxNsym == 3        \* largest number of ecc symbols
MaxDamage == 3      \* most damage to one chunk: 2 * errors + erasures
MaxRawLen == 3      \* longest arbitrary chunk handed to the decoder
MaxRawErase == 2    \* longest erasure list handed along with an arbitrary chunk
MaxDataLen == 5     \* longest data handed to RSCodec.encode
MaxStreamDamage == 2  \* most positions of one stream changed or erased

\* Symbols messages are made of, differences applied by tampering, and
\* placeholder values written at erased positions.
MsgSyms == {0, 5}
ErrDeltas == {1, 6}
EraseVals == {0, 7}

\* Symbols arbitrary received chunks are made of.
RawSyms == {0, 1, 3, 6}

\* The fields and first consecutive roots explored: GF(2^3) under both of its
\* primitive polynomials, with several generators and fcr values.
Params ==
    { [prim |-> 11, generator |-> 2, c_exp |-> 3, fcr |-> 0],
      [prim |-> 13, generator |-> 3, c_exp |-> 3, fcr |-> 120],
      [prim |-> 11, generator |-> 6, c_exp |-> 3, fcr |-> 1] }

-----------------------------------------------------------------------------
(* Integer helpers: C bit operations and Python slicing.                   *)

RECURSIVE XorRec(_, _)
XorRec(a, b) ==
    IF a = 0 THEN b
    ELSE IF b = 0 THEN a
    ELSE ((a + b) % 2) + 2 * XorRec(a \div 2, b \div 2)

XorTable == [a \in 0..15 |-> [b \in 0..15 |-> XorRec(a, b)]]

\* x ^ y
Xor(a, b) == IF a < 16 /\ b < 16 THEN XorTable[a][b] ELSE XorRec(a, b)

RECURSIVE Pow2(_)
Pow2(n) == IF n = 0 THEN 1 ELSE 2 * Pow2(n - 1)

Min(a, b) == IF a < b THEN a ELSE b
Max(a, b) == IF a > b THEN a ELSE b

\* A sequence given element by element, computed once and for all (the
\* same value as f: concatenating the empty sequence changes nothing).
AsSeq(f) == f \o <<>>

\* Python's clamping of a slice bound against a sequence of length n.
PyBound(i, n) == IF i < 0 THEN Max(i + n, 0) ELSE Min(i, n)

\* Python s[start:stop]
PySlice(s, start, stop) ==
    LET lo == PyBound(start, Len(s))
        hi == PyBound(stop, Len(s))
    IN  IF hi <= lo THEN <<>> ELSE SubSeq(s, lo + 1, hi)

\* Python s[start:]
PyFrom(s, start) ==
    LET lo == PyBound(start, Len(s))
    IN  IF lo >= Len(s) THEN <<>> ELSE SubSeq(s, lo + 1, Len(s))

\* Python s[::-1]
Reverse(s) == AsSeq([i \in 1..Len(s) |-> s[Len(s) + 1 - i]])

\* bytearray(n): n zero bytes
Zeros(n) == AsSeq([i \in 1..n |-> 0])

\* Python max(s) of a non-empty sequence
RECURSIVE SeqMaxFrom(_, _, _)
SeqMaxFrom(s, i, m) ==
    IF i > Len(s) THEN m ELSE SeqMaxFrom(s, i + 1, Max(m, s[i]))
SeqMax(s) == SeqMaxFrom(s, 2, s[1])

\* Python slice assignment buf[start:stop] = val on a bytearray: the slice is
\* replaced by val whatever their lengths, so the buffer may shrink or grow.
PySliceAssign(buf, start, stop, val) ==
    LET lo == PyBound(start, Len(buf))
        hi == Max(PyBound(stop, Len(buf)), lo)
    IN  SubSeq(buf, 1, lo) \o val \o SubSeq(buf, hi + 1, Len(buf))

-----------------------------------------------------------------------------
(* Galois field arithmetic.                                                *)

\* Russian peasant carry-less multiplication with modular reduction.
RECURSIVE gf_mult_noLUT_loop(_, _, _, _, _)
gf_mult_noLUT_loop(x, y, r, prim, field_charac_full) ==
    IF y = 0 THEN r
    ELSE LET r1 == IF y % 2 = 1 THEN Xor(r, x) ELSE r
             x1 == 2 * x
             x2 == IF prim > 0 /\ (x1 \div field_charac_full) % 2 = 1
                   THEN Xor(x1, prim) ELSE x1
         IN  gf_mult_noLUT_loop(x2, y \div 2, r1, prim, field_charac_full)

gf_mult_noLUT(x, y, prim, field_charac_full) ==
    gf_mult_noLUT_loop(x, y, 0, prim, field_charac_full)

\* A value stored in a uint8_t.
U8(v) == v % 256

\* Iterations lo .. hi - 1 of the first loop of init_tables, from the loop
\* state s: gf_exp[i] = x, gf_log[x] = i, x = gf_mult_noLUT(x, generator, ...).
\* The tables are uint8_t buffers. The range is run as two halves, one after
\* the other.
RECURSIVE init_tables_loop(_, _, _, _, _, _)
init_tables_loop(lo, hi, s, prim, generator, fc) ==
    IF lo >= hi THEN s
    ELSE IF hi = lo + 1
    THEN [x |-> gf_mult_noLUT(s.x, generator, prim, fc + 1),
          exp |-> [s.exp EXCEPT ![lo + 1] = U8(s.x)],
          log |-> [s.log EXCEPT ![s.x + 1] = U8(lo)]]
    ELSE LET mid == (lo + hi) \div 2
             half == init_tables_loop(lo, mid, s, prim, generator, fc)
         IN  IF half.x < 0 THEN half
             ELSE init_tables_loop(mid, hi, half, prim, generator, fc)

\* init_tables(prim, generator, c_exp): the tables it stores in the globals.
init_tables(prim, generator, c_exp) ==
    LET fc == Pow2(c_exp) - 1
        t  == init_tables_loop(0, fc, [x |-> 1, exp |-> Zeros(2 * fc),
                                       log |-> Zeros(fc + 1)],
                               prim, generator, fc)
    IN  [gf_exp |-> AsSeq([i \in 1..(2 * fc) |->
                        IF i <= fc THEN t.exp[i] ELSE t.exp[i - fc]]),
         gf_log |-> t.log,
         field_charac |-> fc]

gf_sub(x, y) == Xor(x, y)

\* The arguments, the locals lx, ly, z, x1, x2 and the results of the field
\* functions are uint8_t; the indices computed in gf_inverse and gf_div are
\* int.
gf_inverse(x) == gf_exp[(field_charac - gf_log[U8(x) + 1]) + 1]

gf_mul(x, y) ==
    IF U8(x) = 0 \/ U8(y) = 0 THEN 0
    ELSE gf_exp[U8((gf_log[U8(x) + 1] + gf_log[U8(y) + 1]) % field_charac) + 1]

\* gf_div raises ZeroDivisionError for y = 0: modelled as the value -1.
gf_div(x, y) ==
    IF U8(y) = 0 THEN -1
    ELSE IF U8(x) = 0 THEN 0
    ELSE gf_exp[((gf_log[U8(x) + 1] + field_charac - gf_log[U8(y) + 1])
                    % field_charac) + 1]

\* Python's modulo (cdivision(False)): the result has the sign of field_charac.
gf_pow(x, power) ==
    gf_exp[U8((gf_log[U8(x) + 1] * power) % field_charac) + 1]

-----------------------------------------------------------------------------
(* Polynomials over the field.                                             *)

gf_poly_scale(p, x) == AsSeq([i \in 1..Len(p) |-> gf_mul(p[i], x)])

gf_poly_add(p, q) ==
    LET r_len == Max(Len(p), Len(q))
    IN  AsSeq([k \in 1..r_len |->
            Xor(IF k > r_len - Len(p) THEN p[k - (r_len - Len(p))] ELSE 0,
                IF k > r_len - Len(q) THEN q[k - (r_len - Len(q))] ELSE 0)])

\* The inner loop of gf_poly_mul over the coefficients i of p, for one j.
RECURSIVE gf_poly_mul_inner(_, _, _, _, _)
gf_poly_mul_inner(p, j, lq, i, r) ==
    IF i = Len(p) THEN r
    ELSE gf_poly_mul_inner(p, j, lq, i + 1,
            IF p[i + 1] # 0
            THEN [r EXCEPT ![i + j + 1] =
                     Xor(@, gf_exp[gf_log[p[i + 1] + 1] + lq + 1])]
            ELSE r)

\* The outer loop of gf_poly_mul over the coefficients j of q.
RECURSIVE gf_poly_mul_outer(_, _, _, _)
gf_poly_mul_outer(p, q, j, r) ==
    IF j = Len(q) THEN r
    ELSE gf_poly_mul_outer(p, q, j + 1,
            IF q[j + 1] # 0
            THEN gf_poly_mul_inner(p, j, gf_log[q[j + 1] + 1], 0, r)
            ELSE r)

gf_poly_mul(p, q) == gf_poly_mul_outer(p, q, 0, Zeros(Len(p) + Len(q) - 1))

\* Horner's scheme; poly is not empty.
RECURSIVE gf_poly_eval_loop(_, _, _, _)
gf_poly_eval_loop(poly, x, i, y) ==
    IF i = Len(poly) THEN y
    ELSE gf_poly_eval_loop(poly, x, i + 1, Xor(gf_mul(y, x), poly[i + 1]))

gf_poly_eval(poly, x) == gf_poly_eval_loop(poly, x, 1, poly[1])

-----------------------------------------------------------------------------
(* Reed-Solomon encoding.                                                  *)

RECURSIVE rs_generator_poly_loop(_, _, _, _, _)
rs_generator_poly_loop(i, g, nsym, fcr, generator) ==
    IF i = nsym THEN g
    ELSE rs_generator_poly_loop(i + 1,
            gf_poly_mul(g, <<1, gf_pow(generator, i + fcr)>>),
            nsym, fcr, generator)

\* The generator polynomial with its roots one power too high.
rs_generator_poly_shifted(nsym, fcr, generator) ==
    rs_generator_poly_loop(0, <<1>>, nsym, fcr + 1, generator)

rs_generator_poly(nsym, fcr, generator) ==
    rs_generator_poly_loop(0, <<1>>, nsym, fcr, generator)

\* The inner loop of rs_encode_msg: msg_out[i + j] ^= gf_exp[lcoef + lgen[j]]
\* for j in 1..gen_len-1 (no test of gen[j], as in the source).
RECURSIVE rs_encode_msg_inner(_, _, _, _, _)
rs_encode_msg_inner(msg_out, gen, i, lcoef, j) ==
    IF j = Len(gen) THEN msg_out
    ELSE rs_encode_msg_inner(
            [msg_out EXCEPT ![i + j + 1] =
                Xor(@, gf_exp[lcoef + gf_log[gen[j + 1] + 1] + 1])],
            gen, i, lcoef, j + 1)

\* The synthetic division main loop of rs_encode_msg.
RECURSIVE rs_encode_msg_loop(_, _, _, _)
rs_encode_msg_loop(msg_out, gen, msg_in_len, i) ==
    IF i = msg_in_len THEN msg_out
    ELSE rs_encode_msg_loop(
            IF msg_out[i + 1] # 0
            THEN rs_encode_msg_inner(msg_out, gen, i, gf_log[msg_out[i + 1] + 1], 1)
            ELSE msg_out,
            gen, msg_in_len, i + 1)

\* The working buffer of rs_encode_msg after the division: quotient, remainder.
rs_encode_msg_divided(msg_in, gen) ==
    rs_encode_msg_loop(msg_in \o Zeros(Len(gen) - 1), gen, Len(msg_in), 0)

\* rs_encode_msg without its last statement: the quotient is left in place.
rs_encode_msg_norecopy(msg_in, nsym, fcr, generator, gen) ==
    rs_encode_msg_divided(msg_in, gen)

\* rs_encode_msg: the division, then the message recopied over the quotient.
rs_encode_msg(msg_in, nsym, fcr, generator, gen) ==
    PySliceAssign(rs_encode_msg_divided(msg_in, gen), 0, Len(msg_in), msg_in)

-----------------------------------------------------------------------------
(* Reed-Solomon decoding.                                                  *)

\* rs_calc_syndromes with the roots generator^i, fcr forgotten.
rs_calc_syndromes_nofcr(msg_in, nsym, fcr, generator) ==
    AsSeq([k \in 1..(nsym + 1) |->
        IF k = 1 THEN 0
        ELSE gf_poly_eval(msg_in, gf_pow(generator, k - 2))])

\* synd[0] = 0, synd[i+1] = msg_in evaluated at generator^(i+fcr).
rs_calc_syndromes(msg_in, nsym, fcr, generator) ==
    AsSeq([k \in 1..(nsym + 1) |->
        IF k = 1 THEN 0
        ELSE gf_poly_eval(msg_in, gf_pow(generator, (k - 2) + fcr))])

\* rs_check looking at the last syndrome only.
rs_check_last(msg, nsym, fcr, generator) ==
    LET synd == rs_calc_syndromes(msg, nsym, fcr, generator)
    IN  synd[Len(synd)] = 0

rs_check(msg, nsym, fcr, generator) ==
    SeqMax(rs_calc_syndromes(msg, nsym, fcr, generator)) = 0

\* Python s[i] with wraparound of a negative index.
PyAt(s, i) == IF i < 0 THEN s[Len(s) + i + 1] ELSE s[i + 1]

\* An exception leaving a function: its kind only.
Raise(kind) == [status |-> kind]

RECURSIVE rs_find_errata_locator_loop(_, _, _, _)
rs_find_errata_locator_loop(e_pos, generator, k, e_loc) ==
    IF k > Len(e_pos) THEN e_loc
    ELSE rs_find_errata_locator_loop(e_pos, generator, k + 1,
            gf_poly_mul(e_loc,
                        gf_poly_add(<<1>>, <<gf_pow(generator, e_pos[k]), 0>>)))

rs_find_errata_locator(e_pos, generator) ==
    rs_find_errata_locator_loop(e_pos, generator, 1, <<1>>)

rs_find_error_evaluator(synd, err_loc, nsym) ==
    LET remainder == gf_poly_mul(synd, err_loc)
    IN  PyFrom(remainder, Len(remainder) - (nsym + 1))

\* The denominator of the Forney algorithm: product over j # i.
RECURSIVE err_loc_prime_loop(_, _, _, _, _)
err_loc_prime_loop(X, i, Xi_inv, j, acc) ==
    IF j = Len(X) THEN acc
    ELSE err_loc_prime_loop(X, i, Xi_inv, j + 1,
            IF j # i
            THEN gf_mul(acc, gf_sub(1, gf_mul(Xi_inv, X[j + 1])))
            ELSE acc)

\* rs_correct_errata without the test that guards the division.
ForneyDegenerate_never(err_loc_prime) == FALSE

\* The test of rs_correct_errata that guards the division (creedsolo.pyx:700).
ForneyDegenerate(err_loc_prime) == err_loc_prime = 0

\* The magnitude loop of rs_correct_errata over the errata i.
RECURSIVE rs_correct_errata_loop(_, _, _, _, _, _)
rs_correct_errata_loop(X, err_eval, err_pos, fcr, i, E) ==
    IF i = Len(X) THEN [status |-> "ok", E |-> E]
    ELSE LET Xi == X[i + 1]
             Xi_inv == gf_inverse(Xi)
             err_loc_prime == err_loc_prime_loop(X, i, Xi_inv, 0, 1)
             y == gf_mul(gf_pow(Xi, 1 - fcr),
                         gf_poly_eval(Reverse(err_eval), Xi_inv))
             magnitude == gf_div(y, err_loc_prime)
         IN  IF ForneyDegenerate(err_loc_prime) THEN Raise("ReedSolomonError")
             ELSE IF magnitude = -1 THEN Raise("ZeroDivisionError")
             ELSE rs_correct_errata_loop(X, err_eval, err_pos, fcr, i + 1,
                     [E EXCEPT ![err_pos[i + 1] + 1] = magnitude])

\* Forney algorithm: the corrected message, or the exception raised.
rs_correct_errata(msg_in, synd, err_pos, fcr, generator) ==
    LET msg_len == Len(msg_in)
        coef_pos == AsSeq([i \in 1..Len(err_pos) |-> msg_len - 1 - err_pos[i]])
        err_loc == rs_find_errata_locator(coef_pos, generator)
        err_eval == Reverse(rs_find_error_evaluator(Reverse(synd), err_loc,
                                                    Len(err_loc) - 1))
        X == AsSeq([i \in 1..Len(coef_pos) |->
                 gf_pow(generator, -(field_charac - coef_pos[i]))])
        r == rs_correct_errata_loop(X, err_eval, err_pos, fcr, 0, Zeros(msg_len))
    IN  IF r.status # "ok" THEN r
        ELSE [status |-> "ok", msg |-> gf_poly_add(msg_in, r.E)]

\* The discrepancy of Berlekamp-Massey at syndrome index K.
RECURSIVE bm_delta(_, _, _, _, _)
bm_delta(synd, err_loc, K, j, delta) ==
    IF j >= Len(err_loc) THEN delta
    ELSE bm_delta(synd, err_loc, K, j + 1,
            Xor(delta, gf_mul(PyAt(err_loc, -(j + 1)), PyAt(synd, K - j))))

\* The main loop of rs_find_error_locator.
RECURSIVE bm_loop(_, _, _, _, _, _, _, _)
bm_loop(synd, nsym, seeded, erase_count, synd_shift, i, err_loc, old_loc) ==
    IF i >= nsym - erase_count THEN err_loc
    ELSE LET K == IF seeded THEN erase_count + i + synd_shift ELSE i + synd_shift
             delta == bm_delta(synd, err_loc, K, 1, synd[K + 1])
             old1 == old_loc \o <<0>>
             ruleB == Len(old1) > Len(err_loc)
             new_loc == gf_poly_scale(old1, delta)
             old2 == IF ruleB THEN gf_poly_scale(err_loc, gf_inverse(delta)) ELSE old1
             loc2 == IF ruleB THEN new_loc ELSE err_loc
         IN  IF delta # 0
             THEN bm_loop(synd, nsym, seeded, erase_count, synd_shift, i + 1,
                          gf_poly_add(loc2, gf_poly_scale(old2, delta)), old2)
             ELSE bm_loop(synd, nsym, seeded, erase_count, synd_shift, i + 1,
                          err_loc, old1)

\* Drop the leading zero coefficients (an all-zero locator is left as it is).
RECURSIVE DropLeadingZeros(_, _)
DropLeadingZeros(err_loc, i) ==
    IF i > Len(err_loc) THEN err_loc
    ELSE IF err_loc[i] # 0 THEN SubSeq(err_loc, i, Len(err_loc))
    ELSE DropLeadingZeros(err_loc, i + 1)

\* The final test of rs_find_error_locator (creedsolo.pyx:778-780).
TooManyErrors(errs_found, erase_count, nsym) ==
    (errs_found - erase_count) * 2 + erase_count > nsym

\* Berlekamp-Massey. erase_loc = <<>> stands for the default None, whose
\* shape[0] is 0.
rs_find_error_locator(synd, nsym, erase_loc, erase_count) ==
    LET seeded == Len(erase_loc) > 0
        start == IF seeded THEN erase_loc ELSE <<1>>
        synd_shift == IF Len(synd) > nsym THEN Len(synd) - nsym ELSE 0
        err_loc == DropLeadingZeros(
                       bm_loop(synd, nsym, seeded, erase_count, synd_shift, 0,
                               start, start), 1)
    IN  IF TooManyErrors(Len(err_loc) - 1, erase_count, nsym)
        THEN Raise("ReedSolomonError")
        ELSE [status |-> "ok", err_loc |-> err_loc]

\* The roots found by the brute-force Chien search, in the order found.
RECURSIVE rs_find_errors_loop(_, _, _, _, _)
rs_find_errors_loop(err_loc, nmess, generator, i, err_pos) ==
    IF i = nmess THEN err_pos
    ELSE rs_find_errors_loop(err_loc, nmess, generator, i + 1,
            IF gf_poly_eval(err_loc, gf_pow(generator, i)) = 0
            THEN Append(err_pos, nmess - 1 - i)
            ELSE err_pos)

\* rs_find_errors appending the positions in increasing order.
rs_find_errors_ascending(err_loc, nmess, generator) ==
    LET err_pos == rs_find_errors_loop(err_loc, nmess, generator, 0, <<>>)
    IN  IF Len(err_pos) # Len(err_loc) - 1 THEN Raise("ReedSolomonError")
        ELSE [status |-> "ok", err_pos |-> Reverse(err_pos)]

rs_find_errors(err_loc, nmess, generator) ==
    LET err_pos == rs_find_errors_loop(err_loc, nmess, generator, 0, <<>>)
    IN  IF Len(err_pos) # Len(err_loc) - 1 THEN Raise("ReedSolomonError")
        ELSE [status |-> "ok", err_pos |-> err_pos]

\* One pass of the Forney syndrome loop, for one erasure.
RECURSIVE rs_forney_syndromes_loop(_, _, _, _, _)
rs_forney_syndromes_loop(fsynd, pos, nmess, generator, i) ==
    IF i = Len(pos) THEN fsynd
    ELSE LET x == gf_pow(generator, nmess - 1 - pos[i + 1])
         IN  rs_forney_syndromes_loop(
                 AsSeq([j \in 1..Len(fsynd) |->
                     IF j < Len(fsynd)
                     THEN Xor(gf_mul(fsynd[j], x), fsynd[j + 1])
                     ELSE fsynd[j]]),
                 pos, nmess, generator, i + 1)

rs_forney_syndromes(synd, pos, nmess, generator) ==
    rs_forney_syndromes_loop(PyFrom(synd, 1), pos, nmess, generator, 0)

\* rs_correct_msg leaving the erased symbols as they came.
ZeroFill_skipped(msg, positions) == msg

\* for e_pos in erase_pos: msg_out[e_pos] = 0
ZeroFill(msg, positions) ==
    AsSeq([k \in 1..Len(msg) |->
        IF \E e \in 1..Len(positions) : positions[e] + 1 = k THEN 0 ELSE msg[k]])

\* What rs_correct_msg returns: (msg_out[:-nsym], msg_out[-nsym:], errata_pos).
Returned(msg_out, nsym, errata_pos) ==
    [status |-> "ok",
     rmes |-> PySlice(msg_out, 0, -nsym),
     recc |-> PyFrom(msg_out, -nsym),
     errata_pos |-> errata_pos]

\* The final verification of rs_correct_msg (creedsolo.pyx:889-891).
NotRepaired(msg, nsym, fcr, generator) ==
    SeqMax(rs_calc_syndromes(msg, nsym, fcr, generator)) > 0

\* The part of rs_correct_msg after the clean-chunk test.
rs_correct_msg_repair(msg_out, synd, nsym, fcr, generator, erasures, only_eras) ==
    LET fsynd == rs_forney_syndromes(synd, erasures, Len(msg_out), generator)
        loc == rs_find_error_locator(fsynd, nsym, <<>>, Len(erasures))
        found == IF only_eras THEN [status |-> "ok", err_pos |-> <<>>]
                 ELSE IF loc.status # "ok" THEN loc
                 ELSE rs_find_errors(Reverse(loc.err_loc), Len(msg_out), generator)
        errata_pos == erasures \o found.err_pos
        fixed == rs_correct_errata(msg_out, synd, errata_pos, fcr, generator)
    IN  IF found.status # "ok" THEN Raise(found.status)
        ELSE IF fixed.status # "ok" THEN Raise(fixed.status)
        ELSE IF NotRepaired(fixed.msg, nsym, fcr, generator)
             THEN Raise("ReedSolomonError")
        ELSE Returned(fixed.msg, nsym, errata_pos)

\* Reed-Solomon main decoding function.
rs_correct_msg(msg_in, nsym, fcr, generator, erasures, only_eras) ==
    LET msg_out == ZeroFill(msg_in, erasures)
        synd == rs_calc_syndromes(msg_out, nsym, fcr, generator)
    IN  IF Len(msg_in) > field_charac THEN Raise("ValueError")
        ELSE IF Len(erasures) > nsym THEN Raise("ReedSolomonError")
        ELSE IF SeqMax(synd) = 0 THEN Returned(msg_out, nsym, erasures)
        ELSE rs_correct_msg_repair(msg_out, synd, nsym, fcr, generator,
                                   erasures, only_eras)

-----------------------------------------------------------------------------
(* The low-level session of the README ("full control"): init_tables, then *)
(* rs_encode_msg, a channel that tampers with the codeword, and            *)
(* rs_correct_msg.                                                         *)

\* All sequences over S of length lo..hi.
SeqsOf(S, lo, hi) == UNION { [1..n -> S] : n \in lo..hi }

Msgs == SeqsOf(MsgSyms, 0, MaxMsgLen)

NoOutcome == [status |-> "none"]

\* The RSCodec instances of the model, none constructed yet.
CodecIds == {1, 2}

NoCodec == [built |-> FALSE]

NoCall == [op |-> "none"]

\* The module-level initial values of the globals (creedsolo.pyx:131-135).
Init ==
    /\ gf_exp = [i \in 1..512 |-> 1]
    /\ gf_log = [i \in 1..256 |-> 0]
    /\ field_charac = 255
    /\ pc = "start"
    /\ par = [prim |-> 0, generator |-> 0, c_exp |-> 0, fcr |-> 0, nsym |-> 0]
    /\ mes = <<>>
    /\ mesecc = <<>>
    /\ rcv = <<>>
    /\ erase_pos = <<>>
    /\ errs = {}
    /\ only_erasures = FALSE
    /\ out = NoOutcome
    /\ codecs = [c \in CodecIds |-> NoCodec]
    /\ cpc = "idle"
    /\ call = NoCall
    /\ res = NoOutcome
    /\ stream = <<>>
    /\ stream_erase = <<>>
    /\ stream_errs = {}
    /\ enc_gen = <<>>
    /\ enc_lgen = <<>>
    /\ enc_out = <<>>
    /\ enc_i = 0
    /\ enc_lcoef = 0
    /\ enc_at = <<>>
    /\ enc_reg = <<>>
    /\ enc_mixed = FALSE
    /\ thr_p = <<>>
    /\ thr_q = <<>>
    /\ thr_buf = <<>>
    /\ thr_at = <<>>
    /\ thr_reg = <<>>
    /\ thr_coef = <<>>

\* init_tables(prim, generator, c_exp) called by the user.
InitTables(p) ==
    /\ pc = "start"
    /\ LET t == init_tables(p.prim, p.generator, p.c_exp)
       IN  /\ gf_exp' = t.gf_exp
           /\ gf_log' = t.gf_log
           /\ field_charac' = t.field_charac
    /\ par' = [prim |-> p.prim, generator |-> p.generator, c_exp |-> p.c_exp,
               fcr |-> p.fcr, nsym |-> 0]
    /\ pc' = "tables"
    /\ UNCHANGED <<codec_vars, par_vars, thr_vars>>
    /\ UNCHANGED <<mes, mesecc, rcv, erase_pos, errs, only_erasures, out>>

\* mesecc = rs_encode_msg(mes, nsym, gen=rs_generator_poly(nsym, fcr, generator))
Encode(n, m) ==
    /\ pc = "tables"
    /\ Len(m) + n <= field_charac
    /\ par' = [par EXCEPT !.nsym = n]
    /\ mes' = m
    /\ mesecc' = rs_encode_msg(m, n, par.fcr, par.generator,
                               rs_generator_poly(n, par.fcr, par.generator))
    /\ rcv' = mesecc'
    /\ pc' = "sent"
    /\ UNCHANGED <<codec_vars, par_vars, thr_vars>>
    /\ UNCHANGED <<gf_exp, gf_log, field_charac, erase_pos, errs, only_erasures, out>>

Erased == { erase_pos[k] : k \in 1..Len(erase_pos) }

Damage == 2 * Cardinality(errs) + Len(erase_pos)

\* The channel changes the symbol at position p, telling nobody.
Tamper(p, d) ==
    /\ pc = "sent"
    /\ erase_pos = <<>>
    /\ p \in 0..(Len(rcv) - 1)
    /\ \A q \in errs : q < p
    /\ Damage + 2 <= MaxDamage
    /\ rcv' = [rcv EXCEPT ![p + 1] = Xor(@, d)]
    /\ errs' = errs \cup {p}
    /\ UNCHANGED <<codec_vars, par_vars, thr_vars>>
    /\ UNCHANGED <<gf_exp, gf_log, field_charac, pc, par, mes, mesecc, erase_pos,
                   only_erasures, out>>

\* The channel overwrites position p with v and reports p as an erasure.
Erase(p, v) ==
    /\ pc = "sent"
    /\ p \in 0..(Len(rcv) - 1)
    /\ p \notin errs
    /\ \A q \in Erased : q < p
    /\ Damage + 1 <= MaxDamage
    /\ rcv' = [rcv EXCEPT ![p + 1] = v]
    /\ erase_pos' = Append(erase_pos, p)
    /\ UNCHANGED <<codec_vars, par_vars, thr_vars>>
    /\ UNCHANGED <<gf_exp, gf_log, field_charac, pc, par, mes, mesecc, errs,
                   only_erasures, out>>

\* rs_correct_msg(rcv, nsym, fcr, generator, erase_pos, only_erasures=flag)
Decode(flag) ==
    /\ pc = "sent"
    /\ only_erasures' = flag
    /\ out' = rs_correct_msg(rcv, par.nsym, par.fcr, par.generator, erase_pos, flag)
    /\ pc' = "decoded"
    /\ UNCHANGED <<codec_vars, par_vars, thr_vars>>
    /\ UNCHANGED <<gf_exp, gf_log, field_charac, par, mes, mesecc, rcv,
                   erase_pos, errs>>

\* (Each disjunct states the position its action starts from before it
\* draws the action's inputs.)
Next ==
    \/ pc = "start" /\ \E p \in Params : InitTables(p)
    \/ pc = "tables" /\ \E n \in 0..MaxNsym, m \in Msgs : Encode(n, m)
    \/ pc = "sent" /\ \E p \in 0..(Len(rcv) - 1), d \in ErrDeltas : Tamper(p, d)
    \/ pc = "sent" /\ \E p \in 0..(Len(rcv) - 1), v \in EraseVals : Erase(p, v)
    \/ pc = "sent" /\ \E flag \in BOOLEAN : Decode(flag)

Spec == Init /\ [][Next]_vars

-----------------------------------------------------------------------------
(* The decoder alone: rs_correct_msg is handed an arbitrary chunk and an    *)
(* arbitrary list of in-range erasure positions (repetitions included).     *)

RawChunks == SeqsOf(RawSyms, 1, MaxRawLen)

RawErasures(w) == SeqsOf(0..(Len(w) - 1), 0, MaxRawErase)

\* A chunk w arrives with the erasure list eras, to be decoded with nsym = n.
Receive(n, w, eras) ==
    /\ pc = "tables"
    /\ Len(w) <= field_charac
    /\ par' = [par EXCEPT !.nsym = n]
    /\ rcv' = w
    /\ erase_pos' = eras
    /\ pc' = "sent"
    /\ UNCHANGED <<codec_vars, par_vars, thr_vars>>
    /\ UNCHANGED <<gf_exp, gf_log, field_charac, mes, mesecc, errs,
                   only_erasures, out>>

NextRaw ==
    \/ pc = "start" /\ \E p \in Params : InitTables(p)
    \/ pc = "tables" /\ \E n \in 0..MaxNsym, w \in RawChunks :
                            \E eras \in RawErasures(w) : Receive(n, w, eras)
    \/ pc = "sent" /\ \E flag \in BOOLEAN : Decode(flag)

SpecRaw == Init /\ [][NextRaw]_vars

-----------------------------------------------------------------------------
(* The RSCodec facade: construction, and the encode, decode and check       *)
(* methods, each in two steps: the save-and-install of the tables at its    *)
(* head, then its body up to the exit (a return, or an exception that       *)
(* leaves the method).                                                      *)

\* The arguments each codec of the model is constructed with.
CodecParams ==
    <<[nsym |-> 1, nsize |-> 3, fcr |-> 0, prim |-> 11, generator |-> 2,
       c_exp |-> 3, single_gen |-> TRUE],
      [nsym |-> 2, nsize |-> 4, fcr |-> 120, prim |-> 13, generator |-> 3,
       c_exp |-> 3, single_gen |-> TRUE]>>

\* Data handed to RSCodec.encode: n symbols k, 2k, 3k, ... of the field.
Sample(n, k) == AsSeq([i \in 1..n |-> (k * i) % 8])

DataSeeds == {3}

\* Lengths of the data: none, one full chunk, a full and a short chunk, and
\* the longest.
DataLens == {0, 2, 3, MaxDataLen}

DataSet == { Sample(n, k) : n \in DataLens, k \in DataSeeds }

\* What the channel does to a stream: the difference applied to a changed
\* symbol, and the value written at an erased position.
StreamDeltas == {6}
StreamFills == {0}

\* The list of generator polynomials with entry k holding the polynomial
\* for k + 1 check symbols.
rs_generator_poly_all_late(max_nsym, fcr, generator) ==
    [k \in 1..max_nsym |-> rs_generator_poly(k, fcr, generator)]

\* g_all[nsym] = rs_generator_poly(nsym, fcr, generator) for nsym in
\* 0..max_nsym-1
rs_generator_poly_all(max_nsym, fcr, generator) ==
    [k \in 1..max_nsym |-> rs_generator_poly(k - 1, fcr, generator)]

\* RSCodec.__init__ for codec c. The tables init_tables builds are stored in
\* the globals and in the instance; the generator polynomial is computed
\* afterwards, with the new tables.
CodecNew(c) ==
    LET p == CodecParams[c]
        t == init_tables(p.prim, p.generator, p.c_exp)
    IN  /\ cpc # "running"
        /\ ~codecs[c].built
        /\ ~(p.nsize > 255 /\ p.c_exp <= 8)
        /\ ~(p.c_exp # 8 /\ p.prim = 285)
        /\ IF p.nsym >= p.nsize
           THEN /\ res' = Raise("ValueError")
                /\ UNCHANGED <<gf_exp, gf_log, field_charac, codecs>>
           ELSE /\ gf_exp' = t.gf_exp
                /\ gf_log' = t.gf_log
                /\ field_charac' = t.field_charac
                /\ codecs' = [codecs EXCEPT ![c] =
                      [built |-> TRUE, nsym |-> p.nsym, nsize |-> p.nsize,
                       fcr |-> p.fcr, prim |-> p.prim, generator |-> p.generator,
                       c_exp |-> p.c_exp, single_gen |-> p.single_gen,
                       field_charac |-> t.field_charac,
                       gf_exp |-> t.gf_exp, gf_log |-> t.gf_log,
                       gen |-> IF p.single_gen
                               THEN rs_generator_poly(p.nsym, p.fcr, p.generator)'
                               ELSE <<>>,
                       g_all |-> IF p.single_gen THEN <<>>
                                 ELSE rs_generator_poly_all(p.nsize, p.fcr,
                                                            p.generator)',
                       field_charac_temp |-> 0,
                       gf_exp_temp |-> <<>>, gf_log_temp |-> <<>>]]
                /\ UNCHANGED res
        /\ UNCHANGED <<cpc, call, stream, stream_erase, stream_errs>>
        /\ UNCHANGED <<chunk_vars, par_vars, thr_vars>>

\* The globals left as the previous user of the module set them.
set_globals_skipped(self) ==
    [gf_exp |-> gf_exp, gf_log |-> gf_log, field_charac |-> field_charac]

\* self.__set_globals(): the tables the instance installs in the globals.
set_globals(self) ==
    [gf_exp |-> self.gf_exp, gf_log |-> self.gf_log,
     field_charac |-> self.field_charac]

\* self.__save_globals() then self.__set_globals(), at the head of a method
\* of codec c called with the arguments args. The call also remembers the
\* tables as they were when it began.
Enter(c, args) ==
    /\ cpc # "running"
    /\ codecs[c].built
    /\ codecs' = [codecs EXCEPT ![c].field_charac_temp = field_charac,
                                ![c].gf_exp_temp = gf_exp,
                                ![c].gf_log_temp = gf_log]
    /\ gf_exp' = set_globals(codecs[c]).gf_exp
    /\ gf_log' = set_globals(codecs[c]).gf_log
    /\ field_charac' = set_globals(codecs[c]).field_charac
    /\ call' = [op |-> args.op, self |-> c, data |-> args.data,
                nsym |-> IF "nsym" \in DOMAIN args THEN args.nsym ELSE -1,
                erase_pos |-> args.erase_pos,
                only_erasures |-> args.only_erasures,
                before |-> [gf_exp |-> gf_exp, gf_log |-> gf_log,
                            field_charac |-> field_charac]]
    /\ res' = NoOutcome
    /\ cpc' = "running"
    /\ UNCHANGED <<chunk_vars, par_vars, thr_vars>>

\* self.__restore_globals()
Restore ==
    /\ gf_exp' = codecs[call.self].gf_exp_temp
    /\ gf_log' = codecs[call.self].gf_log_temp
    /\ field_charac' = codecs[call.self].field_charac_temp

\* The number of chunks rounded down: <int>(data_len / chunk_size)
total_chunks_floor(data_len, chunk_size) == data_len \div chunk_size

\* <int>math.ceil(<float>data_len / <float>chunk_size)
total_chunks(data_len, chunk_size) == (data_len + chunk_size - 1) \div chunk_size

\* The chunking loop of RSCodec.encode.
RECURSIVE encode_loop(_, _, _, _, _, _, _)
encode_loop(self, data, nsym, gen, total, i, enc) ==
    IF i = total THEN enc
    ELSE LET chunk_size == self.nsize - nsym
         IN  encode_loop(self, data, nsym, gen, total, i + 1,
                 PySliceAssign(enc, i * self.nsize, (i + 1) * self.nsize,
                     rs_encode_msg(PySlice(data, i * chunk_size, (i + 1) * chunk_size),
                                   nsym, self.fcr, self.generator, gen)))

\* RSCodec.encode between the set and the restore of the globals.
RSCodec_encode(self, data, nsym_arg) ==
    LET nsym == IF nsym_arg < 0 THEN self.nsym ELSE nsym_arg
        gen == IF self.single_gen THEN self.gen ELSE self.g_all[nsym + 1]
        total == total_chunks(Len(data), self.nsize - nsym)
    IN  encode_loop(self, data, nsym, gen, total, 0, Zeros(total * self.nsize))

\* e_pos = bytearray([x for x in erase_pos if x < nsize])
ChunkErasures(erasures, nsize) == SelectSeq(erasures, LAMBDA x : x < nsize)

\* The erasures of the later chunks kept as they are, nsize not subtracted.
RestErasures_noshift(erasures, nsize) ==
    SelectSeq(erasures, LAMBDA x : x >= nsize)

\* erase_pos = bytearray([x - nsize for x in erase_pos if x >= nsize])
RestErasures(erasures, nsize) ==
    LET rest == SelectSeq(erasures, LAMBDA x : x >= nsize)
    IN  AsSeq([k \in 1..Len(rest) |-> rest[k] - nsize])

\* Only the repaired message stored, the repaired parity left out.
dec_full_store_noparity(dec_full, i, nsize, nmes, rmes, recc) ==
    PySliceAssign(dec_full, i * nsize, (i + 1) * nsize, rmes)

\* dec_full[i*nsize:(i+1)*nsize] = rmes, then
\* dec_full[i*nsize + nmes:(i+1)*nsize + nmes] = recc
dec_full_store(dec_full, i, nsize, nmes, rmes, recc) ==
    PySliceAssign(PySliceAssign(dec_full, i * nsize, (i + 1) * nsize, rmes),
                  i * nsize + nmes, (i + 1) * nsize + nmes, recc)

\* The chunking loop of RSCodec.decode. An exception of rs_correct_msg leaves
\* the loop and the method. handed records the erasure list each chunk was
\* decoded with.
RECURSIVE decode_loop(_, _, _, _, _, _, _, _)
decode_loop(self, data, nsym, only_eras, total, i, erasures, acc) ==
    IF i = total
    THEN [status |-> "ok", dec |-> acc.dec, dec_full |-> acc.dec_full,
          errata_pos |-> acc.errata_pos_all, handed |-> acc.handed]
    ELSE LET nsize == self.nsize
             nmes == nsize - nsym
             e_pos == ChunkErasures(erasures, nsize)
             r == rs_correct_msg(PySlice(data, i * nsize, (i + 1) * nsize), nsym,
                                 self.fcr, self.generator, e_pos, only_eras)
         IN  IF r.status # "ok"
             THEN [status |-> r.status, handed |-> Append(acc.handed, e_pos)]
             ELSE decode_loop(self, data, nsym, only_eras, total, i + 1,
                     RestErasures(erasures, nsize),
                     [dec |-> PySliceAssign(acc.dec, i * nmes, (i + 1) * nmes, r.rmes),
                      dec_full |-> dec_full_store(acc.dec_full, i, nsize, nmes,
                                                  r.rmes, r.recc),
                      errata_pos_all |-> acc.errata_pos_all \o r.errata_pos,
                      handed |-> Append(acc.handed, e_pos)])

\* RSCodec.decode between the set and the restore of the globals (erase_pos
\* None and an empty erase_pos both give every chunk an empty list).
RSCodec_decode(self, data, nsym_arg, erasures, only_eras) ==
    LET nsym == IF nsym_arg < 0 THEN self.nsym ELSE nsym_arg
        total == total_chunks(Len(data), self.nsize)
    IN  decode_loop(self, data, nsym, only_eras, total, 0, erasures,
                    [dec |-> Zeros(total * (self.nsize - nsym)),
                     dec_full |-> Zeros(total * self.nsize),
                     errata_pos_all |-> <<>>, handed |-> <<>>])

\* RSCodec.check between the set and the restore of the globals.
RSCodec_check(self, data, nsym_arg) ==
    LET nsym == IF nsym_arg < 0 THEN self.nsym ELSE nsym_arg
        total == total_chunks(Len(data), self.nsize)
    IN  [i \in 1..total |->
            rs_check(PySlice(data, (i - 1) * self.nsize, i * self.nsize), nsym,
                     self.fcr, self.generator)]

\* codec c's encode(d) is called.
CallEncode(c, d) ==
    /\ Enter(c, [op |-> "encode", data |-> d, erase_pos |-> <<>>,
                 only_erasures |-> FALSE])
    /\ stream' = <<>>
    /\ stream_erase' = <<>>
    /\ stream_errs' = {}

\* The body of encode: the chunking loop, the restore, the return.
RunEncode ==
    /\ cpc = "running"
    /\ call.op = "encode"
    /\ res' = [status |-> "ok",
               enc |-> RSCodec_encode(codecs[call.self], call.data, call.nsym)]
    /\ Restore
    /\ stream' = res'.enc
    /\ cpc' = "returned"
    /\ UNCHANGED <<codecs, call, stream_erase, stream_errs>>
    /\ UNCHANGED <<chunk_vars, par_vars, thr_vars>>

\* An encoded stream is there, untouched by any decode or check so far.
StreamReady == cpc = "returned" /\ call.op = "encode"

StreamErased == { stream_erase[k] : k \in 1..Len(stream_erase) }

StreamDamage == Cardinality(stream_errs) + Len(stream_erase)

\* The channel changes the symbol at position p of the stream.
StreamTamper(p, d) ==
    /\ StreamReady
    /\ stream_erase = <<>>
    /\ p \in 0..(Len(stream) - 1)
    /\ \A q \in stream_errs : q < p
    /\ StreamDamage + 1 <= MaxStreamDamage
    /\ stream' = [stream EXCEPT ![p + 1] = Xor(@, d)]
    /\ stream_errs' = stream_errs \cup {p}
    /\ UNCHANGED <<gf_exp, gf_log, field_charac, codecs, cpc, call, res, stream_erase>>
    /\ UNCHANGED <<chunk_vars, par_vars, thr_vars>>

\* The channel overwrites position p of the stream and reports it; reports
\* come in any order.
StreamErase(p, v) ==
    /\ StreamReady
    /\ p \in 0..(Len(stream) - 1)
    /\ p \notin stream_errs
    /\ p \notin StreamErased
    /\ StreamDamage + 1 <= MaxStreamDamage
    /\ stream' = [stream EXCEPT ![p + 1] = v]
    /\ stream_erase' = Append(stream_erase, p)
    /\ UNCHANGED <<gf_exp, gf_log, field_charac, codecs, cpc, call, res, stream_errs>>
    /\ UNCHANGED <<chunk_vars, par_vars, thr_vars>>

\* codec c's decode(stream, erase_pos=stream_erase, only_erasures=flag) is
\* called.
CallDecode(c, flag) ==
    /\ StreamReady
    /\ Enter(c, [op |-> "decode", data |-> stream, erase_pos |-> stream_erase,
                 only_erasures |-> flag])
    /\ UNCHANGED <<stream, stream_erase, stream_errs>>

\* decode with a chunk decoder that repairs the caller's buffer instead of
\* a copy of the chunk.
RunDecode_inplace ==
    /\ cpc = "running"
    /\ call.op = "decode"
    /\ res' = RSCodec_decode(codecs[call.self], call.data, call.nsym,
                             call.erase_pos, call.only_erasures)
    /\ IF res'.status = "ok"
       THEN Restore /\ cpc' = "returned"
       ELSE UNCHANGED <<gf_exp, gf_log, field_charac>> /\ cpc' = "raised"
    /\ stream' = IF res'.status = "ok" THEN res'.dec_full ELSE stream
    /\ UNCHANGED <<codecs, call, stream_erase, stream_errs>>
    /\ UNCHANGED <<chunk_vars, par_vars, thr_vars>>

\* The body of decode: the chunking loop, then the restore and the return,
\* unless rs_correct_msg raised: the exception leaves decode at once.
RunDecode ==
    /\ cpc = "running"
    /\ call.op = "decode"
    /\ res' = RSCodec_decode(codecs[call.self], call.data, call.nsym,
                             call.erase_pos, call.only_erasures)
    /\ IF res'.status = "ok"
       THEN Restore /\ cpc' = "returned"
       ELSE UNCHANGED <<gf_exp, gf_log, field_charac>> /\ cpc' = "raised"
    /\ UNCHANGED <<codecs, call, stream, stream_erase, stream_errs>>
    /\ UNCHANGED <<chunk_vars, par_vars, thr_vars>>

\* codec c's check(stream) is called.
CallCheck(c) ==
    /\ StreamReady
    /\ Enter(c, [op |-> "check", data |-> stream, erase_pos |-> <<>>,
                 only_erasures |-> FALSE])
    /\ UNCHANGED <<stream, stream_erase, stream_errs>>

\* The body of check: the chunking loop, the restore, the return.
RunCheck ==
    /\ cpc = "running"
    /\ call.op = "check"
    /\ res' = [status |-> "ok",
               check |-> RSCodec_check(codecs[call.self], call.data, call.nsym)]
    /\ Restore
    /\ cpc' = "returned"
    /\ UNCHANGED <<codecs, call, stream, stream_erase, stream_errs>>
    /\ UNCHANGED <<chunk_vars, par_vars, thr_vars>>

NextCodec ==
    \/ cpc # "running" /\ \E c \in CodecIds : CodecNew(c)
    \/ cpc # "running" /\ \E c \in CodecIds, d \in DataSet : CallEncode(c, d)
    \/ RunEncode
    \/ StreamReady /\ \E p \in 0..(Len(stream) - 1), d \in StreamDeltas : StreamTamper(p, d)
    \/ StreamReady /\ \E p \in 0..(Len(stream) - 1), v \in StreamFills : StreamErase(p, v)
    \/ StreamReady /\ \E c \in CodecIds, flag \in BOOLEAN : CallDecode(c, flag)
    \/ RunDecode
    \/ StreamReady /\ \E c \in CodecIds : CallCheck(c)
    \/ RunCheck

SpecCodec == Init /\ [][NextCodec]_vars

-----------------------------------------------------------------------------
(* Properties of the chunk encoder and decoder, stated over Spec.          *)

\* The outcome is a success returning the message and the codeword sent.
Recovered ==
    /\ out.status = "ok"
    /\ out.rmes = mes
    /\ out.rmes \o out.recc = mesecc

\* C1: clean round trip. For nsym >= 2, decoding the untouched codeword of a
\* message returns the message, the unchanged codeword (message part and
\* parity part) and an empty list of errata positions.
C1_CleanRoundTrip ==
    (pc = "decoded" /\ par.nsym >= 2 /\ Damage = 0)
        => (Recovered /\ out.errata_pos = <<>>)

C1_Witness ==
    /\ pc = "decoded" /\ par.nsym >= 2 /\ Damage = 0
    /\ Len(mes) >= 2 /\ mes[1] # 0 /\ par.fcr # 0
    /\ out.status = "ok" /\ out.rmes = mes

\* C2: correction within the Singleton bound, as claimed (any nsym). With v
\* erasures passed in erase_pos and e other positions changed, 2e + v <= nsym,
\* decoding succeeds and returns the message and the codeword.
C2_SingletonBound ==
    (pc = "decoded" /\ ~only_erasures /\ Damage <= par.nsym) => Recovered

\* C2 for codes that have parity symbols (nsym >= 1).
C2_SingletonBound_Parity ==
    (pc = "decoded" /\ ~only_erasures /\ par.nsym >= 1 /\ Damage <= par.nsym)
        => Recovered

\* A mixed case of C2: one hidden error and one erasure are repaired.
C2_Mixed_Reached ==
    /\ pc = "decoded" /\ ~only_erasures
    /\ Cardinality(errs) = 1 /\ Len(erase_pos) = 1 /\ Damage <= par.nsym
    /\ rcv[erase_pos[1] + 1] # mesecc[erase_pos[1] + 1]
    /\ Recovered

\* C3: erasure-only decoding, as claimed (any nsym). When only erased
\* positions were changed, at most nsym of them, decoding with
\* only_erasures = true returns the message, and the same outcome as decoding
\* with only_erasures = false.
C3_ErasureOnly ==
    (pc = "decoded" /\ only_erasures /\ errs = {} /\ Len(erase_pos) <= par.nsym)
        => /\ Recovered
           /\ out = rs_correct_msg(rcv, par.nsym, par.fcr, par.generator,
                                   erase_pos, FALSE)

\* C3 for codes that have parity symbols (nsym >= 1).
C3_ErasureOnly_Parity ==
    (pc = "decoded" /\ only_erasures /\ errs = {} /\ par.nsym >= 1
        /\ Len(erase_pos) <= par.nsym)
        => /\ Recovered
           /\ out = rs_correct_msg(rcv, par.nsym, par.fcr, par.generator,
                                   erase_pos, FALSE)

\* A case of C3: nsym >= 2 erasures, all with changed symbols, are repaired.
C3_Full_Reached ==
    /\ pc = "decoded" /\ only_erasures /\ errs = {}
    /\ par.nsym >= 2 /\ Len(erase_pos) = par.nsym
    /\ \A k \in 1..Len(erase_pos) : rcv[erase_pos[k] + 1] # mesecc[erase_pos[k] + 1]
    /\ Recovered

\* C5: rs_check is true exactly on codewords. The received word w (of length
\* at least nsym) has all its syndromes zero if and only if w is the encoding
\* of its own first |w| - nsym symbols.
C5_CheckIffCodeword ==
    (pc = "sent" /\ Len(rcv) >= par.nsym)
        => (rs_check(rcv, par.nsym, par.fcr, par.generator)
            <=> rcv = rs_encode_msg(PySlice(rcv, 0, Len(rcv) - par.nsym),
                                    par.nsym, par.fcr, par.generator,
                                    rs_generator_poly(par.nsym, par.fcr,
                                                      par.generator)))

\* A tampered word that is another codeword, and passes rs_check.
C5_Witness ==
    /\ pc = "sent" /\ par.nsym >= 1 /\ errs # {} /\ rcv # mesecc
    /\ rs_check(rcv, par.nsym, par.fcr, par.generator)

\* All polynomials of n coefficients over the field.
FieldPolys(n) == [1..n -> 0..field_charac]

\* r is the remainder of msg * x^nsym divided by the monic g of degree nsym:
\* it has nsym coefficients and msg * x^nsym = q * g + r for some quotient q.
IsRemainder(r, msg, g, nsym) ==
    /\ Len(r) = nsym
    /\ Len(g) = nsym + 1
    /\ g[1] = 1
    /\ \E q \in FieldPolys(Len(msg)) :
           gf_poly_add(gf_poly_mul(q, g), r) = msg \o Zeros(nsym)

\* C6: systematic encoding. rs_encode_msg returns a word of |msg| + nsym
\* symbols whose first |msg| symbols are msg and whose last nsym symbols are
\* the remainder of msg * x^nsym divided by the generator polynomial.
C6_Systematic ==
    (pc = "sent" /\ Damage = 0)
        => /\ Len(mesecc) = Len(mes) + par.nsym
           /\ SubSeq(mesecc, 1, Len(mes)) = mes
           /\ IsRemainder(SubSeq(mesecc, Len(mes) + 1, Len(mesecc)), mes,
                          rs_generator_poly(par.nsym, par.fcr, par.generator),
                          par.nsym)

C6_Witness ==
    /\ pc = "sent" /\ Damage = 0 /\ par.nsym >= 2 /\ Len(mes) >= 2
    /\ mes[1] # 0
    /\ \E k \in (Len(mes) + 1)..Len(mesecc) : mesecc[k] # 0

-----------------------------------------------------------------------------
(* Properties of the decoder on arbitrary input, stated over SpecRaw.      *)

\* C4: decoder safety. Whatever the chunk, the in-range erasure list and the
\* only_erasures flag, rs_correct_msg either raises ReedSolomonError or
\* returns a message and a parity whose concatenation has all-zero syndromes;
\* it never ends with another kind of error (a field division by zero).
C4_DecoderSafety ==
    pc = "decoded"
        => \/ out.status = "ReedSolomonError"
           \/ /\ out.status = "ok"
              /\ rs_check(out.rmes \o out.recc, par.nsym, par.fcr, par.generator)

\* An arbitrary chunk that is no codeword is repaired into one.
C4_Witness ==
    /\ pc = "decoded" /\ out.status = "ok" /\ par.nsym >= 2
    /\ erase_pos = <<>> /\ ~only_erasures
    /\ out.errata_pos # <<>>
    /\ out.rmes \o out.recc # rcv

-----------------------------------------------------------------------------
(* Properties of the RSCodec facade, stated over SpecCodec. The per-chunk   *)
(* results a method is compared with are computed while the method runs,   *)
(* when the codec's own tables are installed.                               *)

\* The successive slices of k symbols of data; the last one may be shorter.
RECURSIVE Slices(_, _)
Slices(data, k) ==
    IF data = <<>> THEN <<>>
    ELSE LET n == Min(k, Len(data))
         IN  <<SubSeq(data, 1, n)>> \o Slices(SubSeq(data, n + 1, Len(data)), k)

\* The concatenation, in order, of a sequence of sequences.
RECURSIVE Concat(_)
Concat(ss) == IF ss = <<>> THEN <<>> ELSE Head(ss) \o Concat(Tail(ss))

\* ceil(a / b) for a >= 0 and b >= 1
CeilDiv(a, b) == CHOOSE n \in 0..a : n * b >= a /\ (n = 0 \/ (n - 1) * b < a)

\* The positions of erasures that lie in chunk i (counted from 0) of chunks of
\* nsize symbols, as chunk-local indices, in the order given.
LocalErasures(erasures, nsize, i) ==
    LET mine == SelectSeq(erasures, LAMBDA q : q \div nsize = i)
    IN  [k \in 1..Len(mine) |-> mine[k] % nsize]

RECURSIVE TotalLen(_)
TotalLen(ss) == IF ss = <<>> THEN 0 ELSE Len(Head(ss)) + TotalLen(Tail(ss))

\* C9: erasure dispatch. Chunk i of a decode is handed exactly the erasure
\* positions p of the caller's list with floor(p / nsize) = i, each as the
\* chunk-local index p mod nsize, in the caller's order; when all chunks have
\* been decoded every position has been handed to exactly one chunk.
C9_ErasureDispatch ==
    (cpc \in {"returned", "raised"} /\ call.op = "decode")
        => /\ \A i \in 1..Len(res.handed) :
                  res.handed[i] = LocalErasures(call.erase_pos,
                                                codecs[call.self].nsize, i - 1)
           /\ cpc = "returned" => TotalLen(res.handed) = Len(call.erase_pos)

\* Two erasures given in descending order, in the third and the second chunk.
C9_Witness ==
    /\ cpc = "returned" /\ call.op = "decode"
    /\ Len(call.erase_pos) = 2
    /\ call.erase_pos[1] >= 2 * codecs[call.self].nsize
    /\ call.erase_pos[2] >= codecs[call.self].nsize
    /\ call.erase_pos[2] < 2 * codecs[call.self].nsize
    /\ Len(res.handed) = 3
    /\ res.handed[1] = <<>> /\ res.handed[2] # <<>> /\ res.handed[3] # <<>>

\* C10: guarded table restore. Whenever an encode, decode or check call
\* ends, by a return or by an exception, it leaves the process-wide tables as
\* they were when the call began.
C10_TablesRestored ==
    [][(cpc = "running" /\ cpc' # "running")
        => /\ gf_exp' = call.before.gf_exp
           /\ gf_log' = call.before.gf_log
           /\ field_charac' = call.before.field_charac
      ]_vars

\* C10 for the calls that return: they leave the tables as they were.
C10_RestoredOnReturn ==
    [][(cpc = "running" /\ cpc' = "returned")
        => /\ gf_exp' = call.before.gf_exp
           /\ gf_log' = call.before.gf_log
           /\ field_charac' = call.before.field_charac
      ]_vars

-----------------------------------------------------------------------------
(* Construction of a codec from arbitrary parameters, and the calls that   *)
(* follow it.                                                              *)

\* rwh_primes1(n): the primes below n, ascending.
IsPrime(n) == n >= 2 /\ \A d \in 2..(n - 1) : d * d > n \/ n % d # 0

rwh_primes1(n) ==
    SelectSeq([k \in 1..Max(n - 2, 0) |-> k + 1], IsPrime)

\* The odd numbers lo, lo + 2, ... below hi.
OddsBetween(lo, hi) ==
    [k \in 1..Max((hi - lo + 1) \div 2, 0) |-> lo + 2 * (k - 1)]

\* Iterations lo .. hi - 1 of the second loop of find_prime_polys, from the
\* loop state s: the candidate is rejected when a power of the generator
\* overflows the field or repeats. The range is run as two halves.
RECURSIVE prim_conflict(_, _, _, _, _, _)
prim_conflict(lo, hi, s, prim, generator, fc) ==
    IF lo >= hi \/ s.conflict THEN s
    ELSE IF hi = lo + 1
    THEN LET x1 == gf_mult_noLUT(s.x, generator, prim, fc + 1)
         IN  IF x1 > fc \/ x1 \in s.seen
             THEN [x |-> x1, seen |-> s.seen, conflict |-> TRUE]
             ELSE [x |-> x1, seen |-> s.seen \cup {x1}, conflict |-> FALSE]
    ELSE LET mid == (lo + hi) \div 2
             half == prim_conflict(lo, mid, s, prim, generator, fc)
         IN  IF half.x < 0 THEN half
             ELSE prim_conflict(mid, hi, half, prim, generator, fc)

find_prime_polys(generator, c_exp, fast_primes, single) ==
    LET fc == Pow2(c_exp) - 1
        fc_next == Pow2(c_exp + 1) - 1
        prim_candidates ==
            IF fast_primes
            THEN SelectSeq(rwh_primes1(fc_next), LAMBDA x : x > fc)
            ELSE OddsBetween(fc + 2, fc_next)
        correct_primes ==
            SelectSeq(prim_candidates,
                      LAMBDA q : ~prim_conflict(0, fc, [x |-> 1, seen |-> {},
                                                        conflict |-> FALSE],
                                                q, generator, fc).conflict)
    IN  IF single /\ correct_primes # <<>> THEN <<correct_primes[1]>>
        ELSE correct_primes

\* ln(2) in millionths: math.log(2 ** k) is k * ln(2).
Ln2Micro == 693147

\* math.floor(math.log(n) / math.log(2)) for n >= 1
RECURSIVE FloorLog2(_)
FloorLog2(n) == IF n < 2 THEN 0 ELSE 1 + FloorLog2(n \div 2)

\* <int>(math.log(2 ** (math.floor(math.log(nsize) / math.log(2)) + 1))): the
\* natural logarithm of the next power of two, truncated.
auto_c_exp(nsize) == ((FloorLog2(nsize) + 1) * Ln2Micro) \div 1000000

\* The head of RSCodec.__init__: the automatic setup and the one validation.
\* It gives the attributes memorized, or the exception raised.
RSCodec_init(p) ==
    LET c_exp == IF p.nsize > 255 /\ p.c_exp <= 8
                 THEN auto_c_exp(p.nsize) ELSE p.c_exp
        search == c_exp # 8 /\ p.prim = 285
        found == IF search THEN find_prime_polys(p.generator, c_exp, TRUE, TRUE)
                 ELSE <<p.prim>>
        nsize == IF search /\ p.nsize = 255 THEN Pow2(c_exp) - 1 ELSE p.nsize
    IN  IF found = <<>> THEN Raise("IndexError")
        ELSE IF p.nsym >= nsize THEN Raise("ValueError")
        ELSE [status |-> "ok", nsym |-> p.nsym, nsize |-> nsize, fcr |-> p.fcr,
              prim |-> found[1], generator |-> p.generator, c_exp |-> c_exp,
              single_gen |-> p.single_gen]

\* RSCodec(**p) for codec c, up to the precomputation of the generator
\* polynomials: the automatic setup, the validation, the attributes
\* memorized, init_tables and the tables stored in the instance.
CodecInit(c, p) ==
    \E a \in {RSCodec_init(p)} :
        /\ cpc # "running"
        /\ ~codecs[c].built
        /\ call' = [op |-> "init", self |-> c, args |-> p]
        /\ IF a.status # "ok"
           THEN /\ res' = a
                /\ cpc' = "raised"
                /\ UNCHANGED <<gf_exp, gf_log, field_charac, codecs>>
           ELSE \E t \in {init_tables(a.prim, a.generator, a.c_exp)} :
                /\ gf_exp' = t.gf_exp
                /\ gf_log' = t.gf_log
                /\ field_charac' = t.field_charac
                /\ codecs' = [codecs EXCEPT ![c] =
                      [built |-> FALSE, nsym |-> a.nsym, nsize |-> a.nsize,
                       fcr |-> a.fcr, prim |-> a.prim, generator |-> a.generator,
                       c_exp |-> a.c_exp, single_gen |-> a.single_gen,
                       field_charac |-> t.field_charac,
                       gf_exp |-> t.gf_exp, gf_log |-> t.gf_log,
                       gen |-> <<>>, g_all |-> <<>>,
                       field_charac_temp |-> 0,
                       gf_exp_temp |-> <<>>, gf_log_temp |-> <<>>]]
                /\ res' = NoOutcome
                /\ cpc' = "running"
        /\ UNCHANGED <<stream, stream_erase, stream_errs>>
        /\ UNCHANGED <<chunk_vars, par_vars, thr_vars>>

\* The end of RSCodec.__init__: the generator polynomials are computed with
\* the tables init_tables has just installed, and the instance is complete.
CodecInitGen ==
    /\ cpc = "running"
    /\ call.op = "init"
    /\ LET self == codecs[call.self]
       IN  codecs' = [codecs EXCEPT ![call.self] =
              [self EXCEPT
                 !.built = TRUE,
                 !.gen = IF self.single_gen
                         THEN rs_generator_poly(self.nsym, self.fcr,
                                                self.generator)
                         ELSE <<>>,
                 !.g_all = IF self.single_gen THEN <<>>
                           ELSE rs_generator_poly_all(self.nsize, self.fcr,
                                                      self.generator)]]
    /\ cpc' = "returned"
    /\ UNCHANGED <<gf_exp, gf_log, field_charac, call, res, stream,
                   stream_erase, stream_errs>>
    /\ UNCHANGED <<chunk_vars, par_vars, thr_vars>>

\* maxerrata with the erasures given counted as errors: the remaining
\* capacity is not halved.
maxerrata_unhalved(self, nsym_arg, errors, erasures) ==
    LET nsym == IF nsym_arg < 0 THEN self.nsym ELSE nsym_arg
    IN  IF erasures >= 0
        THEN IF erasures > nsym THEN Raise("ReedSolomonError")
             ELSE [status |-> "ok", maxerrors |-> nsym - erasures,
                   maxerasures |-> erasures]
        ELSE IF errors >= 0
        THEN IF errors > nsym \div 2 THEN Raise("ReedSolomonError")
             ELSE [status |-> "ok", maxerrors |-> errors,
                   maxerasures |-> nsym - errors * 2]
        ELSE [status |-> "ok", maxerrors |-> nsym \div 2,
              maxerasures |-> nsym]

\* RSCodec.maxerrata(nsym, errors, erasures): the pair it returns, or the
\* exception it raises. <int>(x / 2) truncates; x is not negative here.
maxerrata(self, nsym_arg, errors, erasures) ==
    LET nsym == IF nsym_arg < 0 THEN self.nsym ELSE nsym_arg
        maxerrors == nsym \div 2
        maxerasures == nsym
    IN  IF erasures >= 0
        THEN IF erasures > maxerasures THEN Raise("ReedSolomonError")
             ELSE [status |-> "ok", maxerrors |-> (nsym - erasures) \div 2,
                   maxerasures |-> erasures]
        ELSE IF errors >= 0
        THEN IF errors > maxerrors THEN Raise("ReedSolomonError")
             ELSE [status |-> "ok", maxerrors |-> errors,
                   maxerasures |-> nsym - errors * 2]
        ELSE [status |-> "ok", maxerrors |-> maxerrors,
              maxerasures |-> maxerasures]

\* codec c's maxerrata(nsym=n, errors=e, erasures=v) is called and ends; -1
\* stands for an argument left out. The method does not touch the tables.
CallMaxerrata(c, n, e, v) ==
    /\ cpc # "running"
    /\ codecs[c].built
    /\ call' = [op |-> "maxerrata", self |-> c, nsym |-> n, errors |-> e,
                erasures |-> v]
    /\ res' = maxerrata(codecs[c], n, e, v)
    /\ cpc' = IF res'.status = "ok" THEN "returned" ELSE "raised"
    /\ UNCHANGED <<gf_exp, gf_log, field_charac, codecs, stream, stream_erase,
                   stream_errs>>
    /\ UNCHANGED <<chunk_vars, par_vars, thr_vars>>

\* Largest value of a maxerrata argument.
MaxHint == 3

\* Constructor arguments: fields of 4, 8 and 256 elements, a reducible prim
\* (9 is (x + 1)(x^2 + x + 1)), the default prim with another exponent, and
\* chunk sizes within and beyond the field.
NewParams ==
    { [nsym |-> n, nsize |-> z, fcr |-> 0, prim |-> q, generator |-> 2,
       c_exp |-> 3, single_gen |-> g] :
          n \in {0, 1, 2, 7, 10}, z \in {3, 7, 9}, q \in {11, 9, 285},
          g \in BOOLEAN }
    \cup
    { [nsym |-> n, nsize |-> 255, fcr |-> 0, prim |-> q, generator |-> 2,
       c_exp |-> 3, single_gen |-> TRUE] : n \in {2, 10}, q \in {11, 285} }
    \cup
    { [nsym |-> n, nsize |-> 3, fcr |-> 0, prim |-> 7, generator |-> 2,
       c_exp |-> 2, single_gen |-> TRUE] : n \in {0, 1, 3} }
    \cup
    { [nsym |-> n, nsize |-> z, fcr |-> 0, prim |-> 285, generator |-> 2,
       c_exp |-> 8, single_gen |-> TRUE] :
          n \in {0, 2, 10}, z \in {255, 256, 300, 1024, 4095} }
    \cup
    { [nsym |-> 300, nsize |-> z, fcr |-> 0, prim |-> 285, generator |-> 2,
       c_exp |-> 8, single_gen |-> TRUE] : z \in {255, 256, 300} }

\* The data of the reference vectors: [1, 2, 3, 4] and b"hello world".
RefData ==
    { <<1, 2, 3, 4>>,
      <<104, 101, 108, 108, 111, 32, 119, 111, 114, 108, 100>> }

\* Every symbol of data is an element of codec c's field.
InField(c, data) == \A k \in 1..Len(data) : data[k] <= codecs[c].field_charac

NextNew ==
    \/ cpc = "idle" /\ \E p \in NewParams : CodecInit(1, p)
    \/ cpc \in {"returned", "raised"} /\ codecs[1].built
           /\ \E n \in -1..MaxHint, e \in -1..MaxHint, v \in -1..MaxHint :
                  CallMaxerrata(1, n, e, v)
    \/ cpc \in {"returned", "raised"} /\ codecs[1].built
           /\ \E d \in RefData : InField(1, d) /\ CallEncode(1, d)
    \/ CodecInitGen
    \/ RunEncode

SpecNew == Init /\ [][NextNew]_vars

-----------------------------------------------------------------------------
(* Properties of construction, stated over SpecNew.                        *)

\* C12: codec parameter invariant. Every codec that was constructed has
\* nsym < nsize <= 2^c_exp - 1, with c_exp and nsize as adjusted by the
\* constructor.
C12_ParameterInvariant ==
    \A c \in CodecIds :
        codecs[c].built
            => /\ codecs[c].nsym < codecs[c].nsize
               /\ codecs[c].nsize <= Pow2(codecs[c].c_exp) - 1

\* The half of C12 the constructor enforces: nsym < nsize.
C12_NsymBelowNsize ==
    \A c \in CodecIds : codecs[c].built => codecs[c].nsym < codecs[c].nsize

\* The smallest exponent m with 2^m - 1 >= n.
SmallestExp(n) ==
    CHOOSE m \in 1..16 :
        /\ Pow2(m) - 1 >= n
        /\ \A k \in 1..(m - 1) : Pow2(k) - 1 < n

\* C13: automatic field enlargement. A codec constructed with nsize > 255
\* and c_exp <= 8 has c_exp equal to the smallest exponent m with
\* 2^m - 1 >= nsize (nsize = 4095 gives c_exp = 12).
C13_FieldEnlargement ==
    (/\ cpc = "returned" /\ call.op = "init"
     /\ call.args.nsize > 255 /\ call.args.c_exp <= 8)
        => codecs[call.self].c_exp = SmallestExp(call.args.nsize)

\* What the constructor computes instead: the natural logarithm of
\* 2^(floor(log2(nsize)) + 1), truncated, which stays at or below 8 for
\* every nsize of the model.
C13_ExponentNotRaised ==
    (/\ cpc = "returned" /\ call.op = "init"
     /\ call.args.nsize > 255 /\ call.args.c_exp <= 8)
        => /\ codecs[call.self].c_exp <= 8
           /\ Pow2(codecs[call.self].c_exp) - 1 < call.args.nsize

\* The polynomial q over GF(2), given as an integer, is irreducible of
\* degree m: it has degree m and is not the carry-less product of two
\* polynomials of lower positive degree.
IsIrreducible(q, m) ==
    /\ Pow2(m) <= q
    /\ q < Pow2(m + 1)
    /\ \A a \in 2..(Pow2(m) - 1), b \in 2..(Pow2(m) - 1) :
           gf_mult_noLUT(a, b, 0, Pow2(m + 1)) # q

\* C14: configuration errors surface at construction. No codec is returned
\* whose field exponent is outside [3, 16] or whose prim is not an
\* irreducible polynomial of degree c_exp.
C14_ConfigurationErrors ==
    \A c \in CodecIds :
        codecs[c].built
            => /\ codecs[c].c_exp \in 3..16
               /\ IsIrreducible(codecs[c].prim, codecs[c].c_exp)

\* The configuration error the constructor does report: a construction
\* that raised built no codec, and it raised because nsym >= nsize or
\* because no prime polynomial was found for the exponent.
C14_RaisedBuildsNothing ==
    (cpc = "raised" /\ call.op = "init")
        => /\ ~codecs[call.self].built
           /\ res.status \in {"ValueError", "IndexError"}

\* The nsym a maxerrata call works with: the argument, or the codec's nsym
\* when the argument is left out.
HintNsym ==
    IF call.nsym < 0 THEN codecs[call.self].nsym ELSE call.nsym

\* A maxerrata call has ended.
MaxerrataEnded ==
    cpc \in {"returned", "raised"} /\ call.op = "maxerrata"

\* The pair a maxerrata call returned is <<E, V>>.
ReturnedPair(E, V) ==
    /\ cpc = "returned"
    /\ res.maxerrors = E
    /\ res.maxerasures = V

\* The cases of maxerrata: no hint, erasures given alone, errors given
\* alone; a hint beyond its bound raises ReedSolomonError.
MaxerrataCases ==
    /\ (call.errors < 0 /\ call.erasures < 0)
           => ReturnedPair(HintNsym \div 2, HintNsym)
    /\ (call.errors < 0 /\ call.erasures >= 0 /\ call.erasures <= HintNsym)
           => ReturnedPair((HintNsym - call.erasures) \div 2, call.erasures)
    /\ (call.erasures < 0 /\ call.errors >= 0
           /\ call.errors <= HintNsym \div 2)
           => ReturnedPair(call.errors, HintNsym - 2 * call.errors)
    /\ (call.errors < 0 /\ call.erasures > HintNsym)
           => (cpc = "raised" /\ res.status = "ReedSolomonError")
    /\ (call.erasures < 0 /\ call.errors > HintNsym \div 2)
           => (cpc = "raised" /\ res.status = "ReedSolomonError")

\* C16: maxerrata returns (floor(nsym/2), nsym) with no hint,
\* (floor((nsym - v)/2), v) with erasures = v <= nsym, (e, nsym - 2e) with
\* errors = e <= floor(nsym/2), raises ReedSolomonError for a hint beyond its
\* bound, and every pair (E, V) it returns for a call with a hint satisfies
\* 2E + V <= nsym.
C16_Maxerrata ==
    MaxerrataEnded
        => /\ MaxerrataCases
           /\ (cpc = "returned" /\ (call.errors >= 0 \/ call.erasures >= 0))
                  => 2 * res.maxerrors + res.maxerasures <= HintNsym

\* C16 as stated: the same cases, and every returned pair (E, V), the one
\* of a call without a hint included, satisfies 2E + V <= nsym.
C16_MaxerrataAnyPair ==
    MaxerrataEnded
        => /\ MaxerrataCases
           /\ cpc = "returned"
                  => 2 * res.maxerrors + res.maxerasures <= HintNsym

\* A call with erasures = 1 on three check symbols returned the pair (1, 1).
C16_Witness ==
    /\ MaxerrataEnded
    /\ HintNsym = 3
    /\ call.erasures = 1
    /\ call.errors < 0
    /\ ReturnedPair(1, 1)

\* Codec c was constructed with the defaults and nsym = 10: RSCodec(10).
DefaultCodec(c) ==
    /\ codecs[c].built
    /\ codecs[c].nsym = 10
    /\ codecs[c].nsize = 255
    /\ codecs[c].fcr = 0
    /\ codecs[c].prim = 285
    /\ codecs[c].generator = 2
    /\ codecs[c].c_exp = 8

\* b"hello world".
HelloWorld == <<104, 101, 108, 108, 111, 32, 119, 111, 114, 108, 100>>

\* C18: reference vectors. With RSCodec(10), encode([1, 2, 3, 4]) is
\* 01 02 03 04 2C 9D 1C 2B 3D F8 68 FA 98 4D and encode(b"hello world") is
\* the message followed by ED 25 54 C4 FD FD 89 F3 A8 AA.
C18_ReferenceVectors ==
    (cpc = "returned" /\ call.op = "encode" /\ DefaultCodec(call.self))
        => /\ call.data = <<1, 2, 3, 4>>
                => res.enc = <<1, 2, 3, 4, 44, 157, 28, 43, 61, 248, 104,
                               250, 152, 77>>
           /\ call.data = HelloWorld
                => res.enc = HelloWorld \o <<237, 37, 84, 196, 253, 253, 137,
                                             243, 168, 170>>

\* RSCodec(10).encode(b"hello world") has returned.
C18_Witness ==
    /\ cpc = "returned"
    /\ call.op = "encode"
    /\ DefaultCodec(call.self)
    /\ call.data = HelloWorld
    /\ Len(res.enc) = 21

-----------------------------------------------------------------------------
(* Several codecs in one process.                                          *)

\* The instance RSCodec.__init__ builds from the parameters p when the
\* globals hold the tables of p's own field.
SoloCodec(p) ==
    [nsym |-> p.nsym, nsize |-> p.nsize, fcr |-> p.fcr,
     generator |-> p.generator, single_gen |-> p.single_gen,
     gen |-> rs_generator_poly(p.nsym, p.fcr, p.generator)]

\* What the call in progress returns when its codec computes alone.
SoloResult(p) ==
    IF call.op = "encode"
    THEN [status |-> "ok", enc |-> RSCodec_encode(SoloCodec(p), call.data, -1)]
    ELSE IF call.op = "decode"
    THEN RSCodec_decode(SoloCodec(p), call.data, -1, call.erase_pos,
                        call.only_erasures)
    ELSE [status |-> "ok", check |-> RSCodec_check(SoloCodec(p), call.data, -1)]

\* C11: multi-codec isolation. Whatever was constructed and called before,
\* failed decodes included, a call of encode, decode or check runs with the
\* tables init_tables builds for its own codec's (prim, generator, c_exp) and
\* returns what the codec would return were it the only one ever constructed.
C11_Isolation ==
    [][cpc = "running" =>
        LET p == CodecParams[call.self]
            t == init_tables(p.prim, p.generator, p.c_exp)
        IN  /\ gf_exp = t.gf_exp
            /\ gf_log = t.gf_log
            /\ field_charac = t.field_charac
            /\ res' = SoloResult(p)
      ]_vars

\* Codec 1 decodes and repairs a stream while the globals hold the tables of
\* another field, after codec 2 was constructed and called.
C11_Witness ==
    /\ cpc = "returned" /\ call.op = "decode" /\ call.self = 1
    /\ codecs[1].built /\ codecs[2].built
    /\ call.before.gf_exp # codecs[1].gf_exp
    /\ codecs[2].gf_exp_temp # <<>>
    /\ Len(res.errata_pos) > 0

-----------------------------------------------------------------------------
(* A codec with the list of generator polynomials (single_gen=False),      *)
(* called with the number of check symbols as an argument.                 *)

\* Constructor arguments of the variable-rate codec.
VarParams ==
    { [nsym |-> 1, nsize |-> 4, fcr |-> 0, prim |-> 11, generator |-> 2,
       c_exp |-> 3, single_gen |-> FALSE],
      [nsym |-> 3, nsize |-> 4, fcr |-> 1, prim |-> 13, generator |-> 3,
       c_exp |-> 3, single_gen |-> FALSE] }

\* Data handed to encode(data, nsym=x).
VarData == { Sample(0, 3), Sample(3, 3) }

\* codec c's encode(d, nsym=x) is called.
CallEncodeVar(c, d, x) ==
    /\ Enter(c, [op |-> "encode", data |-> d, nsym |-> x,
                 erase_pos |-> <<>>, only_erasures |-> FALSE])
    /\ stream' = <<>>
    /\ stream_erase' = <<>>
    /\ stream_errs' = {}

\* codec c's decode(stream, nsym=x, erase_pos=stream_erase,
\* only_erasures=flag) is called.
CallDecodeVar(c, flag, x) ==
    /\ StreamReady
    /\ Enter(c, [op |-> "decode", data |-> stream, nsym |-> x,
                 erase_pos |-> stream_erase, only_erasures |-> flag])
    /\ UNCHANGED <<stream, stream_erase, stream_errs>>

NextVar ==
    \/ cpc = "idle" /\ \E p \in VarParams : CodecInit(1, p)
    \/ CodecInitGen
    \/ cpc \in {"returned", "raised"} /\ codecs[1].built
           /\ \E d \in VarData, x \in 0..(codecs[1].nsize - 1) :
                  CallEncodeVar(1, d, x)
    \/ RunEncode
    \/ StreamReady /\ \E p \in 0..(Len(stream) - 1), d \in StreamDeltas : StreamTamper(p, d)
    \/ StreamReady /\ \E p \in 0..(Len(stream) - 1), v \in StreamFills : StreamErase(p, v)
    \/ StreamReady /\ \E flag \in BOOLEAN, x \in 0..(codecs[1].nsize - 1) :
                         CallDecodeVar(1, flag, x)
    \/ RunDecode

SpecVar == Init /\ [][NextVar]_vars

\* The codec B of the comparison: constructed with nsym = x, a single
\* generator polynomial, and otherwise the parameters of codec c.
FixedRateCodec(c, x) ==
    SoloCodec([nsym |-> x, nsize |-> codecs[c].nsize, fcr |-> codecs[c].fcr,
               generator |-> codecs[c].generator, single_gen |-> TRUE])

\* C17: variable-rate equivalence. For a codec A constructed with
\* single_gen=False and every x with 0 <= x < nsize, A.encode(data, nsym=x)
\* and A.decode(c, nsym=x) return what B.encode(data) and B.decode(c)
\* return, B being constructed with nsym = x and otherwise the same
\* parameters.
C17_VariableRate ==
    [][(cpc = "running" /\ call.op \in {"encode", "decode"} /\ call.nsym >= 0
          /\ ~codecs[call.self].single_gen)
        => LET B == FixedRateCodec(call.self, call.nsym)
           IN  res' = IF call.op = "encode"
                      THEN [status |-> "ok",
                            enc |-> RSCodec_encode(B, call.data, -1)]
                      ELSE RSCodec_decode(B, call.data, -1, call.erase_pos,
                                          call.only_erasures)
      ]_vars

\* A stream encoded with two check symbols by a codec constructed with one
\* was damaged and then repaired by decode(stream, nsym=2).
C17_Witness ==
    /\ cpc = "returned"
    /\ call.op = "decode"
    /\ ~codecs[call.self].single_gen
    /\ codecs[call.self].nsym = 1
    /\ call.nsym = 2
    /\ Len(res.errata_pos) > 0
    /\ Len(res.dec) > 0

-----------------------------------------------------------------------------
(* The module-level functions called directly: init_tables for fields of   *)
(* 8, 16, 256 and 512 elements, then the chunk encoder on a message of any *)
(* length, or the field functions on a pair of symbols.                    *)

\* Arguments of init_tables: the prim of each field is primitive with
\* generator 2 (0x211 is x^9 + x^4 + 1).
LibParams ==
    { [prim |-> 11, generator |-> 2, c_exp |-> 3, fcr |-> 0],
      [prim |-> 19, generator |-> 2, c_exp |-> 4, fcr |-> 0],
      [prim |-> 285, generator |-> 2, c_exp |-> 8, fcr |-> 0],
      [prim |-> 529, generator |-> 2, c_exp |-> 9, fcr |-> 0] }

\* Largest number of check symbols handed to the chunk encoder here.
MaxLibNsym == 2

\* Longest message handed to the chunk encoder here: with MaxLibNsym more
\* symbols it is longer than the 7 symbols a chunk of GF(8) may have.
MaxLibLen == 6

\* Messages of every length up to MaxLibLen, their symbols in 1..7.
LibMsgs ==
    { AsSeq([i \in 1..n |-> ((k * i) % 7) + 1]) : n \in 0..MaxLibLen,
                                                 k \in {1, 3} }

\* Symbols the field functions are called with; those above 255 exist in
\* the field of 512 elements only.
LibSyms == {0, 1, 2, 3, 7, 9, 15, 29, 142, 255, 256, 300, 511}

\* rs_encode_msg(m, n, gen=rs_generator_poly(n, fcr, generator)) called
\* with a message of any length: the function has no test of the length
\* and is declared noexcept.
EncodeMsg(n, m) ==
    /\ pc = "tables"
    /\ par' = [par EXCEPT !.nsym = n]
    /\ mes' = m
    /\ mesecc' = rs_encode_msg(m, n, par.fcr, par.generator,
                               rs_generator_poly(n, par.fcr, par.generator))
    /\ out' = [status |-> "ok"]
    /\ pc' = "encoded"
    /\ UNCHANGED <<codec_vars, par_vars, thr_vars>>
    /\ UNCHANGED <<gf_exp, gf_log, field_charac, rcv, erase_pos, errs,
                   only_erasures>>

\* gf_inverse(x), gf_mul(x, y), gf_mul(x, gf_inverse(x)) and
\* gf_div(gf_mul(x, y), y) called from Python with symbols of the field: an
\* argument that does not fit uint8_t raises OverflowError.
FieldOps(x, y) ==
    /\ pc = "tables"
    /\ x <= field_charac
    /\ y <= field_charac
    /\ out' = IF x > 255 \/ y > 255 THEN Raise("OverflowError") @@ [x |-> x, y |-> y]
              ELSE [status |-> "ok", x |-> x, y |-> y,
                    inv |-> gf_inverse(x),
                    mul |-> gf_mul(x, y),
                    mul_inv |-> gf_mul(x, gf_inverse(x)),
                    div_mul |-> gf_div(gf_mul(x, y), y)]
    /\ pc' = "computed"
    /\ UNCHANGED <<codec_vars, par_vars, thr_vars>>
    /\ UNCHANGED <<gf_exp, gf_log, field_charac, par, mes, mesecc, rcv,
                   erase_pos, errs, only_erasures>>

NextLib ==
    \/ pc = "start" /\ \E p \in LibParams : InitTables(p)
    \/ pc = "tables" /\ \E n \in 0..MaxLibNsym, m \in LibMsgs : EncodeMsg(n, m)
    \/ pc = "tables" /\ \E x \in LibSyms, y \in LibSyms : FieldOps(x, y)

SpecLib == Init /\ [][NextLib]_vars

\* C15: encoder length bound. rs_encode_msg fails with a message-too-long
\* error, producing no codeword, whenever |msg| + nsym > 2^m - 1.
C15_LengthBound ==
    (pc = "encoded" /\ Len(mes) + par.nsym > field_charac)
        => (out.status # "ok" /\ mesecc = <<>>)

\* What rs_encode_msg does instead: it returns |msg| + nsym symbols for a
\* message of any length.
C15_EncodesAnyLength ==
    pc = "encoded"
        => (out.status = "ok" /\ Len(mesecc) = Len(mes) + par.nsym)

\* The generator reaches every non-zero element of the field under prim.
IsPrimitive(prim, generator, c_exp) ==
    LET fc == Pow2(c_exp) - 1
    IN  ~prim_conflict(0, fc, [x |-> 1, seen |-> {}, conflict |-> FALSE],
                       prim, generator, fc).conflict

\* exp[log[x]] = x for every x in 1..q-1, and exp[i + charac] = exp[i] for
\* every i in 0..charac-1.
TableInvariants ==
    /\ \A x \in 1..field_charac : gf_exp[gf_log[x + 1] + 1] = x
    /\ \A i \in 0..(field_charac - 1) :
           gf_exp[i + field_charac + 1] = gf_exp[i + 1]

\* mul(x, inv(x)) = 1 for x # 0 and div(mul(x, y), y) = x for y # 0, for the
\* pair of symbols the field functions were called with.
ArithmeticInvariants ==
    /\ out.status = "ok"
    /\ out.x # 0 => out.mul_inv = 1
    /\ out.y # 0 => out.div_mul = out.x

\* C19: field table and arithmetic invariants. After init_tables(prim,
\* generator, m) with generator primitive under prim: exp[log[x]] = x for
\* x in 1..q-1, exp[i + charac] = exp[i] for i in 0..charac-1,
\* mul(x, inv(x)) = 1 for x # 0, and div(mul(x, y), y) = x for y # 0.
C19_FieldInvariants ==
    (pc # "start" /\ IsPrimitive(par.prim, par.generator, par.c_exp))
        => /\ TableInvariants
           /\ pc = "computed" => ArithmeticInvariants

\* The invariants of C19 in the fields whose symbols fit a byte (m <= 8).
C19_FieldInvariantsBytes ==
    (pc # "start" /\ par.c_exp <= 8
       /\ IsPrimitive(par.prim, par.generator, par.c_exp))
        => /\ TableInvariants
           /\ pc = "computed" => ArithmeticInvariants

-----------------------------------------------------------------------------
(* rs_encode_msg in steps. The loop that fills lgen and the inner loop of  *)
(* the synthetic division are prange loops: their iterations run in any    *)
(* order and overlap, each inner iteration reading msg_out[i + j] and      *)
(* writing it back in two steps. The outer loop is an xrange loop: an      *)
(* iteration starts when the inner loop of the previous one has joined.    *)

\* Largest number of check symbols, and longest message, encoded in steps.
MaxParNsym == 3
MaxParLen == 3

ParMsgs ==
    { AsSeq([i \in 1..n |-> (k * i) % 8]) : n \in 0..MaxParLen, k \in {3, 5} }

\* Every iteration writes the cell next to the coefficient.
inner_cell_same(i, j) == i + 1

\* The cell of msg_out iteration j of the inner loop reads and writes.
inner_cell(i, j) == i + j

\* The iterations of the running prange loop.
Iterations == DOMAIN enc_at

\* rs_encode_msg(m, n, gen=rs_generator_poly(n, fcr, generator)) is entered:
\* msg_out is allocated with the message copied to its head, lgen is
\* allocated, and the first prange loop starts.
ParStart(n, m) ==
    /\ pc = "tables"
    /\ par' = [par EXCEPT !.nsym = n]
    /\ mes' = m
    /\ enc_gen' = rs_generator_poly(n, par.fcr, par.generator)
    /\ enc_out' = m \o Zeros(n)
    /\ enc_lgen' = Zeros(n + 1)
    /\ enc_i' = 0
    /\ enc_lcoef' = 0
    /\ enc_at' = [j \in 0..n |-> "todo"]
    /\ enc_reg' = [j \in 0..n |-> 0]
    /\ enc_mixed' = FALSE
    /\ pc' = "lgen"
    /\ UNCHANGED <<codec_vars, thr_vars>>
    /\ UNCHANGED <<gf_exp, gf_log, field_charac, mesecc, rcv, erase_pos, errs,
                   only_erasures, out>>

\* Iteration j of the first prange loop: lgen[j] = gf_log[gen[j]]
ParLgen(j) ==
    /\ pc = "lgen"
    /\ j \in Iterations
    /\ enc_at[j] = "todo"
    /\ enc_lgen' = [enc_lgen EXCEPT ![j + 1] = gf_log[enc_gen[j + 1] + 1]]
    /\ enc_at' = [enc_at EXCEPT ![j] = "done"]
    /\ UNCHANGED <<codec_vars, thr_vars>>
    /\ UNCHANGED chunk_vars
    /\ UNCHANGED <<gf_exp, gf_log, field_charac, enc_gen, enc_out, enc_i,
                   enc_lcoef, enc_reg, enc_mixed>>

\* The end of a prange loop: every iteration has finished. After the inner
\* loop the outer loop moves to the next i.
ParJoin ==
    /\ pc \in {"lgen", "inner"}
    /\ \A j \in Iterations : enc_at[j] = "done"
    /\ enc_i' = IF pc = "inner" THEN enc_i + 1 ELSE enc_i
    /\ pc' = "outer"
    /\ UNCHANGED <<codec_vars, thr_vars>>
    /\ UNCHANGED <<gf_exp, gf_log, field_charac, par, mes, mesecc, rcv,
                   erase_pos, errs, only_erasures, out>>
    /\ UNCHANGED <<enc_gen, enc_lgen, enc_out, enc_lcoef, enc_at, enc_reg,
                   enc_mixed>>

\* The head of an outer iteration: coef = msg_out[i]; if it is not zero,
\* lcoef = gf_log[coef] and the inner prange loop over j in 1..gen_len-1
\* starts; otherwise the outer loop moves on.
ParOuter ==
    /\ pc = "outer"
    /\ enc_i < Len(mes)
    /\ LET coef == enc_out[enc_i + 1]
       IN  IF coef # 0
           THEN /\ enc_lcoef' = gf_log[coef + 1]
                /\ enc_at' = [j \in 1..par.nsym |-> "todo"]
                /\ pc' = "inner"
                /\ UNCHANGED enc_i
           ELSE /\ enc_i' = enc_i + 1
                /\ UNCHANGED <<enc_lcoef, enc_at, pc>>
    /\ UNCHANGED <<codec_vars, thr_vars>>
    /\ UNCHANGED <<gf_exp, gf_log, field_charac, par, mes, mesecc, rcv,
                   erase_pos, errs, only_erasures, out>>
    /\ UNCHANGED <<enc_gen, enc_lgen, enc_out, enc_reg, enc_mixed>>

\* Iteration j of the inner loop reads msg_out[i + j].
ParRead(j) ==
    /\ pc = "inner"
    /\ j \in Iterations
    /\ enc_at[j] = "todo"
    /\ enc_reg' = [enc_reg EXCEPT ![j] = enc_out[inner_cell(enc_i, j) + 1]]
    /\ enc_at' = [enc_at EXCEPT ![j] = "read"]
    /\ UNCHANGED <<codec_vars, thr_vars>>
    /\ UNCHANGED chunk_vars
    /\ UNCHANGED <<gf_exp, gf_log, field_charac, enc_gen, enc_lgen, enc_out,
                   enc_i, enc_lcoef, enc_mixed>>

\* Iteration j of the inner loop writes the value it read, xored with
\* gf_exp[lcoef + lgen[j]], to msg_out[i + j].
ParWrite(j) ==
    /\ pc = "inner"
    /\ j \in Iterations
    /\ enc_at[j] = "read"
    /\ enc_out' = [enc_out EXCEPT ![inner_cell(enc_i, j) + 1] =
                      Xor(enc_reg[j], gf_exp[enc_lcoef + enc_lgen[j + 1] + 1])]
    /\ enc_at' = [enc_at EXCEPT ![j] = "done"]
    /\ enc_mixed' = (enc_mixed \/ \E k \in Iterations : k < j /\ enc_at[k] # "done")
    /\ UNCHANGED <<codec_vars, thr_vars>>
    /\ UNCHANGED chunk_vars
    /\ UNCHANGED <<gf_exp, gf_log, field_charac, enc_gen, enc_lgen, enc_i,
                   enc_lcoef, enc_reg>>

\* After the outer loop: the message is recopied over the quotient and the
\* buffer is returned.
ParFinish ==
    /\ pc = "outer"
    /\ enc_i = Len(mes)
    /\ mesecc' = PySliceAssign(enc_out, 0, Len(mes), mes)
    /\ out' = [status |-> "ok"]
    /\ pc' = "encoded"
    /\ UNCHANGED <<codec_vars, thr_vars>>
    /\ UNCHANGED par_vars
    /\ UNCHANGED <<gf_exp, gf_log, field_charac, par, mes, rcv, erase_pos, errs,
                   only_erasures>>

NextPar ==
    \/ pc = "start" /\ \E p \in Params : InitTables(p)
    \/ pc = "tables" /\ \E n \in 0..MaxParNsym, m \in ParMsgs : ParStart(n, m)
    \/ pc = "lgen" /\ \E j \in Iterations : ParLgen(j)
    \/ ParJoin
    \/ ParOuter
    \/ pc = "inner" /\ \E j \in Iterations : ParRead(j)
    \/ pc = "inner" /\ \E j \in Iterations : ParWrite(j)
    \/ ParFinish

SpecPar == Init /\ [][NextPar]_vars

\* C20: encoder parallel determinism. Whatever the order and the overlap of
\* the iterations of the inner loop (each a read of msg_out[i + j] followed
\* by a separate write), with the outer loop sequential, rs_encode_msg
\* returns what the sequential execution returns.
C20_ParallelDeterminism ==
    pc = "encoded"
        => mesecc = rs_encode_msg(mes, par.nsym, par.fcr, par.generator, enc_gen)

\* While the division runs, the buffer differs from the one a sequential
\* execution would hold only in cells of iterations not yet finished: at
\* the head of every outer iteration it is the sequential buffer.
C20_OuterSequential ==
    pc = "outer"
        => enc_out = rs_encode_msg_loop(mes \o Zeros(par.nsym), enc_gen, enc_i, 0)

\* An encoding with three check symbols has ended after inner iterations
\* finished out of order.
C20_Witness ==
    /\ pc = "encoded"
    /\ enc_mixed
    /\ par.nsym = 3
    /\ Len(mes) >= 2
    /\ mesecc # mes \o Zeros(par.nsym)

-----------------------------------------------------------------------------
(* Properties of the chunk decoder's output, stated over SpecRaw.          *)

\* The message part returned has nmess - nsym symbols and the parity part
\* nsym symbols.
SplitAt(nmess, nsym) ==
    /\ Len(out.rmes) = nmess - nsym
    /\ Len(out.recc) = nsym

\* C29: decoder output split. For every chunk of length nmess and every
\* nsym with 0 <= nsym <= nmess, a successful rs_correct_msg returns a
\* message part of exactly nmess - nsym symbols and a parity part of exactly
\* nsym symbols, on the clean path and on the corrected path.
C29_OutputSplit ==
    (pc = "decoded" /\ out.status = "ok" /\ par.nsym <= Len(rcv))
        => SplitAt(Len(rcv), par.nsym)

\* The split of C29 for nsym >= 1, where the negative slice bound -nsym
\* counts from the end of the buffer.
C29_OutputSplitParity ==
    (pc = "decoded" /\ out.status = "ok" /\ par.nsym >= 1
       /\ par.nsym <= Len(rcv))
        => SplitAt(Len(rcv), par.nsym)

\* With nsym = 0 the slices msg_out[:-0] and msg_out[-0:] are msg_out[:0]
\* and msg_out[0:]: the message part is empty and the parity part is the
\* whole chunk.
C29_SplitWithoutParity ==
    (pc = "decoded" /\ out.status = "ok" /\ par.nsym = 0)
        => (out.rmes = <<>> /\ Len(out.recc) = Len(rcv))

-----------------------------------------------------------------------------
(* gf_poly_mul in steps. The loop over j (the coefficients of q) is a      *)
(* prange loop: its iterations run on different threads, in any order and  *)
(* overlapping. Iteration j walks the coefficients of p and, for each      *)
(* non-zero p[i], reads r[i + j] and later writes it back xored with the   *)
(* product: the update is not atomic, and r[i + j] is also the cell of     *)
(* iteration j - 1 at i + 1. lp is filled before, each cell by one         *)
(* iteration.                                                              *)

\* Longest polynomial handed to the functions run in steps.
MaxPolyLen == 2

PolySyms == {0, 1, 3}

Polys == SeqsOf(PolySyms, 1, MaxPolyLen)

\* The first index from i on at which iteration j of gf_poly_mul has a
\* product to add: q[j] and p[i] are both tested against zero.
MulNextWork(p, q, j, i) ==
    IF q[j + 1] = 0 THEN Len(p)
    ELSE LET work == { k \in i..(Len(p) - 1) : p[k + 1] # 0 }
         IN  IF work = {} THEN Len(p)
             ELSE CHOOSE k \in work : \A h \in work : k <= h

\* gf_poly_mul(p, q) is entered: r is allocated, lp is filled, and the
\* prange loop over j starts.
MulStart(p, q) ==
    /\ pc = "tables"
    /\ thr_p' = p
    /\ thr_q' = q
    /\ thr_buf' = Zeros(Len(p) + Len(q) - 1)
    /\ thr_at' = [j \in 0..(Len(q) - 1) |-> [i |-> MulNextWork(p, q, j, 0), ph |-> "todo"]]
    /\ thr_reg' = [j \in 0..(Len(q) - 1) |-> 0]
    /\ thr_coef' = [j \in 0..(Len(q) - 1) |-> q[j + 1]]
    /\ pc' = "mul"
    /\ UNCHANGED <<codec_vars, par_vars>>
    /\ UNCHANGED <<gf_exp, gf_log, field_charac, par, mes, mesecc, rcv,
                   erase_pos, errs, only_erasures, out>>

\* Iteration j reads r[i + j].
MulRead(j) ==
    /\ pc = "mul"
    /\ j \in DOMAIN thr_at
    /\ thr_at[j].ph = "todo"
    /\ thr_at[j].i < Len(thr_p)
    /\ thr_reg' = [thr_reg EXCEPT ![j] = thr_buf[thr_at[j].i + j + 1]]
    /\ thr_at' = [thr_at EXCEPT ![j].ph = "read"]
    /\ UNCHANGED <<codec_vars, par_vars>>
    /\ UNCHANGED chunk_vars
    /\ UNCHANGED <<gf_exp, gf_log, field_charac, thr_p, thr_q, thr_buf, thr_coef>>

\* Iteration j writes r[i + j]: the value it read xored with
\* gf_exp[lp[i] + lq].
MulWrite(j) ==
    /\ pc = "mul"
    /\ j \in DOMAIN thr_at
    /\ thr_at[j].ph = "read"
    /\ LET i == thr_at[j].i
           lp == gf_log[thr_p[i + 1] + 1]
           lq == gf_log[thr_coef[j] + 1]
       IN  /\ thr_buf' = [thr_buf EXCEPT ![i + j + 1] =
                             Xor(thr_reg[j], gf_exp[lp + lq + 1])]
           /\ thr_at' = [thr_at EXCEPT ![j] =
                             [i |-> MulNextWork(thr_p, thr_q, j, i + 1),
                              ph |-> "todo"]]
    /\ UNCHANGED <<codec_vars, par_vars>>
    /\ UNCHANGED chunk_vars
    /\ UNCHANGED <<gf_exp, gf_log, field_charac, thr_p, thr_q, thr_reg, thr_coef>>

\* Every iteration has ended: gf_poly_mul returns r.
MulFinish ==
    /\ pc = "mul"
    /\ \A j \in DOMAIN thr_at : thr_at[j].i = Len(thr_p)
    /\ out' = [status |-> "ok", r |-> thr_buf]
    /\ pc' = "mul_done"
    /\ UNCHANGED <<codec_vars, par_vars, thr_vars>>
    /\ UNCHANGED <<gf_exp, gf_log, field_charac, par, mes, mesecc, rcv,
                   erase_pos, errs, only_erasures>>

NextMul ==
    \/ pc = "start" /\ \E p \in Params : InitTables(p)
    \/ pc = "tables" /\ \E p \in Polys, q \in Polys : MulStart(p, q)
    \/ pc = "mul" /\ \E j \in DOMAIN thr_at : MulRead(j)
    \/ pc = "mul" /\ \E j \in DOMAIN thr_at : MulWrite(j)
    \/ MulFinish

SpecMul == Init /\ [][NextMul]_vars

\* C21: polynomial-product parallel determinism. Under every interleaving
\* of its iterations gf_poly_mul returns the product sequential execution
\* returns.
C21_ProductDeterminism ==
    pc = "mul_done" => out.r = gf_poly_mul(thr_p, thr_q)

\* The products added to the cell c of r.
CellTerms(c) ==
    { ij \in (0..(Len(thr_p) - 1)) \X (0..(Len(thr_q) - 1)) :
        /\ ij[1] + ij[2] = c
        /\ thr_p[ij[1] + 1] # 0
        /\ thr_q[ij[2] + 1] # 0 }

\* When no cell of r receives two products, no update can be lost and the
\* result is the sequential product.
C21_SingleTermCells ==
    (pc = "mul_done"
       /\ \A c \in 0..(Len(thr_buf) - 1) : Cardinality(CellTerms(c)) <= 1)
        => out.r = gf_poly_mul(thr_p, thr_q)

\* The lost update: both iterations read r[1] = 0 before either writes, and
\* (x + 1)(x + 1) comes out as x^2 + x + 1 instead of x^2 + 1.
C21_LostUpdate ==
    /\ pc = "mul_done"
    /\ thr_p = <<1, 1>>
    /\ thr_q = <<1, 1>>
    /\ out.r = <<1, 1, 1>>
    /\ gf_poly_mul(thr_p, thr_q) = <<1, 0, 1>>

\* ---------------------------------------------------------------------
\* gf_poly_div and gf_poly_div_remainder.  Both functions run the same
\* loops over the same buffer; they differ in what they return.

\* The loop over the coefficients j of the divisor, for one i.
RECURSIVE gf_poly_div_inner(_, _, _, _, _)
gf_poly_div_inner(msg_out, divisor, i, lcoef, j) ==
    IF j >= Len(divisor) THEN msg_out
    ELSE gf_poly_div_inner(
            IF divisor[j + 1] # 0
            THEN [msg_out EXCEPT ![i + j + 1] =
                     Xor(@, gf_exp[gf_log[divisor[j + 1] + 1] + lcoef + 1])]
            ELSE msg_out,
            divisor, i, lcoef, j + 1)

\* The loop over the positions i of the dividend, taken in increasing
\* order (the order of a build that runs prange as a plain loop).
RECURSIVE gf_poly_div_outer(_, _, _)
gf_poly_div_outer(msg_out, divisor, i) ==
    IF i >= Len(msg_out) - (Len(divisor) - 1) THEN msg_out
    ELSE gf_poly_div_outer(
            IF msg_out[i + 1] # 0
            THEN gf_poly_div_inner(msg_out, divisor, i,
                                   gf_log[msg_out[i + 1] + 1], 1)
            ELSE msg_out,
            divisor, i + 1)

\* separator = -(len(divisor)-1); the two slices of the buffer.
div_quotient(msg_out, divisor) == PySlice(msg_out, 0, -(Len(divisor) - 1))

div_remainder(msg_out, divisor) == PyFrom(msg_out, -(Len(divisor) - 1))

gf_poly_div(dividend, divisor) ==
    LET msg_out == gf_poly_div_outer(dividend, divisor, 0)
    IN  [quotient  |-> div_quotient(msg_out, divisor),
         remainder |-> div_remainder(msg_out, divisor)]

gf_poly_div_remainder(dividend, divisor) ==
    div_remainder(gf_poly_div_outer(dividend, divisor, 0), divisor)

\* ---------------------------------------------------------------------
\* The division in steps.  The loop over i is a prange: one thread per
\* position i, each caching coef = msg_out[i] when it starts and then
\* updating msg_out[i + j] by a read followed by a write.  thr_at[i].j is
\* the next coefficient of the divisor thread i works on, Len(divisor)
\* when it has none left.

MaxDividendLen == 3
MaxDivisorLen == 2

Dividends == SeqsOf({1, 3}, 1, MaxDividendLen)

Divisors ==
    { <<lead>> \o t : lead \in {1, 3}, t \in {<<>>} \cup SeqsOf({0, 3}, 1, MaxDivisorLen - 1) }

DivFunctions == {"gf_poly_div", "gf_poly_div_remainder"}

DivNextWork(divisor, j) ==
    LET work == { k \in j..(Len(divisor) - 1) : divisor[k + 1] # 0 }
    IN  IF work = {} THEN Len(divisor)
        ELSE CHOOSE k \in work : \A h \in work : k <= h

DivStart(fn, dividend, divisor) ==
    /\ pc = "tables"
    /\ pc' = "div"
    /\ thr_p' = dividend
    /\ thr_q' = divisor
    /\ thr_buf' = dividend
    /\ thr_at' = [i \in 0..(Len(dividend) - Len(divisor)) |->
                     [j |-> 1, ph |-> "coef"]]
    /\ thr_reg' = [i \in 0..(Len(dividend) - Len(divisor)) |-> 0]
    /\ thr_coef' = [i \in 0..(Len(dividend) - Len(divisor)) |-> 0]
    /\ out' = [status |-> "running", fn |-> fn]
    /\ UNCHANGED <<gf_exp, gf_log, field_charac, par, mes, mesecc, rcv,
                   erase_pos, errs, only_erasures>>
    /\ UNCHANGED <<codec_vars, par_vars>>

\* coef = msg_out[i]
DivCoef(i) ==
    /\ pc = "div"
    /\ i \in DOMAIN thr_at
    /\ thr_at[i].ph = "coef"
    /\ thr_coef' = [thr_coef EXCEPT ![i] = thr_buf[i + 1]]
    /\ thr_at' = [thr_at EXCEPT ![i] =
                     [j  |-> IF thr_buf[i + 1] = 0 THEN Len(thr_q)
                             ELSE DivNextWork(thr_q, 1),
                      ph |-> "todo"]]
    /\ UNCHANGED <<thr_p, thr_q, thr_buf, thr_reg>>
    /\ UNCHANGED <<gf_exp, gf_log, field_charac>>
    /\ UNCHANGED <<chunk_vars, codec_vars, par_vars>>

\* The read half of msg_out[i + j] ^= ...
DivRead(i) ==
    /\ pc = "div"
    /\ i \in DOMAIN thr_at
    /\ thr_at[i].ph = "todo"
    /\ thr_at[i].j < Len(thr_q)
    /\ thr_reg' = [thr_reg EXCEPT ![i] = thr_buf[i + thr_at[i].j + 1]]
    /\ thr_at' = [thr_at EXCEPT ![i].ph = "read"]
    /\ UNCHANGED <<thr_p, thr_q, thr_buf, thr_coef>>
    /\ UNCHANGED <<gf_exp, gf_log, field_charac>>
    /\ UNCHANGED <<chunk_vars, codec_vars, par_vars>>

\* The write half of msg_out[i + j] ^= gf_exp[ldivisor_t[j] + lcoef]
DivWrite(i) ==
    /\ pc = "div"
    /\ i \in DOMAIN thr_at
    /\ thr_at[i].ph = "read"
    /\ thr_buf' = [thr_buf EXCEPT ![i + thr_at[i].j + 1] =
                      Xor(thr_reg[i],
                          gf_exp[gf_log[thr_q[thr_at[i].j + 1] + 1]
                                 + gf_log[thr_coef[i] + 1] + 1])]
    /\ thr_at' = [thr_at EXCEPT ![i] =
                     [j |-> DivNextWork(thr_q, thr_at[i].j + 1), ph |-> "todo"]]
    /\ UNCHANGED <<thr_p, thr_q, thr_reg, thr_coef>>
    /\ UNCHANGED <<gf_exp, gf_log, field_charac>>
    /\ UNCHANGED <<chunk_vars, codec_vars, par_vars>>

\* All threads have joined; the function slices the buffer and returns.
DivFinish ==
    /\ pc = "div"
    /\ \A i \in DOMAIN thr_at :
          thr_at[i].ph = "todo" /\ thr_at[i].j >= Len(thr_q)
    /\ pc' = "div_done"
    /\ out' = IF out.fn = "gf_poly_div"
              THEN [status    |-> "ok", fn |-> out.fn,
                    quotient  |-> div_quotient(thr_buf, thr_q),
                    remainder |-> div_remainder(thr_buf, thr_q)]
              ELSE [status    |-> "ok", fn |-> out.fn,
                    remainder |-> div_remainder(thr_buf, thr_q)]
    /\ UNCHANGED <<gf_exp, gf_log, field_charac, par, mes, mesecc, rcv,
                   erase_pos, errs, only_erasures>>
    /\ UNCHANGED <<codec_vars, par_vars, thr_vars>>

NextDiv ==
    \/ \E p \in Params : InitTables(p)
    \/ pc = "tables" /\ \E fn \in DivFunctions, a \in Dividends, b \in Divisors :
          DivStart(fn, a, b)
    \/ pc = "div" /\ \E i \in 0..(MaxDividendLen + 1) : DivCoef(i)
    \/ pc = "div" /\ \E i \in 0..(MaxDividendLen + 1) : DivRead(i)
    \/ pc = "div" /\ \E i \in 0..(MaxDividendLen + 1) : DivWrite(i)
    \/ DivFinish

SpecDiv == Init /\ [][NextDiv]_vars

\* A quotient and a remainder that divide dividend by divisor: the
\* remainder is shorter than the divisor by one, the quotient fills the
\* rest, and quotient * divisor + remainder is the dividend.
Divides(quotient, remainder, dividend, divisor) ==
    /\ Len(remainder) = Len(divisor) - 1
    /\ Len(quotient) = Len(dividend) - Len(divisor) + 1
    /\ gf_poly_add(gf_poly_mul(quotient, divisor), remainder) = dividend

MonicCall == thr_q[1] = 1 /\ Len(thr_q) <= Len(thr_p)

\* C25: for a monic divisor no longer than the dividend (a constant
\* divisor included), gf_poly_div returns a quotient and a remainder with
\* quotient * divisor + remainder = dividend, and gf_poly_div_remainder
\* returns that same remainder.
C25_Division ==
    (pc = "div_done" /\ MonicCall) =>
        /\ out.fn = "gf_poly_div" =>
              Divides(out.quotient, out.remainder, thr_p, thr_q)
        /\ out.fn = "gf_poly_div_remainder" =>
              \E quotient \in SeqsOf(0..field_charac,
                                     Len(thr_p) - Len(thr_q) + 1,
                                     Len(thr_p) - Len(thr_q) + 1) :
                  Divides(quotient, out.remainder, thr_p, thr_q)

\* With positions taken in increasing order and a divisor of degree one
\* or more, both functions divide.
C25_OrderedDivision ==
    (pc \in {"div", "div_done"} /\ MonicCall /\ Len(thr_q) >= 2) =>
        /\ Divides(gf_poly_div(thr_p, thr_q).quotient,
                   gf_poly_div(thr_p, thr_q).remainder, thr_p, thr_q)
        /\ gf_poly_div_remainder(thr_p, thr_q) =
              gf_poly_div(thr_p, thr_q).remainder

\* A constant divisor: the quotient comes back empty and the whole
\* buffer as the remainder.
C25_ConstantDivisor ==
    /\ pc = "div_done"
    /\ out.fn = "gf_poly_div"
    /\ thr_q = <<1>>
    /\ out.quotient = <<>>
    /\ out.remainder = thr_p

\* Two positions run at once: the second cached its coefficient before
\* the first had updated it.
C25_StaleCoefficient ==
    /\ pc = "div_done"
    /\ MonicCall
    /\ Len(thr_q) >= 2
    /\ out.fn = "gf_poly_div"
    /\ ~Divides(out.quotient, out.remainder, thr_p, thr_q)

\* ---------------------------------------------------------------------
\* The simple encoder kept for comparison with rs_encode_msg.

rs_simple_encode_msg(msg_in, nsym, fcr, generator) ==
    IF Len(msg_in) + nsym > field_charac THEN Raise("ValueError")
    ELSE LET gen == rs_generator_poly(nsym, fcr, generator)
             remainder ==
                 gf_poly_div(msg_in \o Zeros(Len(gen) - 1), gen).remainder
         IN  [status |-> "ok", msg_out |-> msg_in \o remainder]

\* rs_simple_encode_msg called with the message and the number of check
\* symbols rs_encode_msg has just been called with.
SimpleEncodeMsg ==
    /\ pc = "encoded"
    /\ out' = rs_simple_encode_msg(mes, par.nsym, par.fcr, par.generator)
    /\ pc' = "compared"
    /\ UNCHANGED <<codec_vars, par_vars, thr_vars>>
    /\ UNCHANGED <<gf_exp, gf_log, field_charac, par, mes, mesecc, rcv,
                   erase_pos, errs, only_erasures>>

NextRef ==
    \/ NextLib
    \/ SimpleEncodeMsg

SpecRef == Init /\ [][NextRef]_vars

\* C27: for every message and every nsym >= 0 with |msg| + nsym <= n_max,
\* rs_encode_msg and rs_simple_encode_msg return the same codeword.
C27_ReferenceAgreement ==
    (pc = "compared" /\ Len(mes) + par.nsym <= field_charac) =>
        (out.status = "ok" /\ out.msg_out = mesecc)

\* The two encoders agree whenever there is at least one check symbol.
C27_AgreementWithParity ==
    (pc = "compared" /\ Len(mes) + par.nsym <= field_charac
                     /\ par.nsym >= 1) =>
        (out.status = "ok" /\ out.msg_out = mesecc)

\* Without check symbols the simple encoder returns the message twice.
C27_MessageTwice ==
    /\ pc = "compared"
    /\ par.nsym = 0
    /\ Len(mes) >= 1
    /\ out.status = "ok"
    /\ out.msg_out = mes \o mes
    /\ mesecc = mes

\* ---------------------------------------------------------------------
\* The search for prime polynomials, called on its own.

MaxGenerator == 9
MaxPrimExp == 4

FindPrimePolys(generator, c_exp, fast_primes, single) ==
    /\ pc = "start"
    /\ out' = [status |-> "ok", generator |-> generator, c_exp |-> c_exp,
               fast_primes |-> fast_primes, single |-> single,
               primes |-> find_prime_polys(generator, c_exp, fast_primes,
                                           single)]
    /\ pc' = "found"
    /\ UNCHANGED <<codec_vars, par_vars, thr_vars>>
    /\ UNCHANGED <<gf_exp, gf_log, field_charac, par, mes, mesecc, rcv,
                   erase_pos, errs, only_erasures>>

NextFind ==
    \E generator \in 2..MaxGenerator, c_exp \in 1..MaxPrimExp,
       fast_primes \in BOOLEAN, single \in BOOLEAN :
        FindPrimePolys(generator, c_exp, fast_primes, single)

SpecFind == Init /\ [][NextFind]_vars

\* The successive powers generator^k .. generator^(q-1), each the product
\* of the one before (x) and the generator by carry-less multiplication
\* reduced by p, are all <= q - 1 and differ from each other and from the
\* powers in seen.
RECURSIVE PowersDistinct(_, _, _, _, _, _)
PowersDistinct(generator, p, q, k, x, seen) ==
    IF k > q - 1 THEN TRUE
    ELSE LET power == gf_mult_noLUT(x, generator, p, q)
         IN  /\ power <= q - 1
             /\ power \notin seen
             /\ PowersDistinct(generator, p, q, k + 1, power,
                               seen \cup {power})

Qualifies(generator, p, q) == PowersDistinct(generator, p, q, 1, 1, {})

\* The elements of a set of integers in increasing order.
RECURSIVE Ascending(_)
Ascending(S) ==
    IF S = {} THEN <<>>
    ELSE LET least == CHOOSE x \in S : \A y \in S : x <= y
         IN  <<least>> \o Ascending(S \ {least})

ExhaustiveSearch == pc = "found" /\ ~out.fast_primes /\ ~out.single

\* C28: with fast_primes = false and single = false, find_prime_polys
\* returns, in increasing order, exactly the integers p with q < p < 2q
\* (q = 2^m) under which the powers generator^1 .. generator^(q-1) are all
\* <= q - 1 and pairwise distinct.
C28_ExactSearch ==
    ExhaustiveSearch =>
        LET q == Pow2(out.c_exp)
        IN  out.primes =
                Ascending({ p \in (q + 1)..(2 * q - 1) :
                              Qualifies(out.generator, p, q) })

\* The search is exact on the integers below 2q - 1.
C28_ExactBelowLast ==
    ExhaustiveSearch =>
        LET q == Pow2(out.c_exp)
        IN  out.primes =
                Ascending({ p \in (q + 1)..(2 * q - 2) :
                              Qualifies(out.generator, p, q) })

\* The integer 2q - 1 qualifies and is not returned.
C28_LastOmitted ==
    /\ ExhaustiveSearch
    /\ out.c_exp >= 3
    /\ Qualifies(out.generator, 2 * Pow2(out.c_exp) - 1, Pow2(out.c_exp))
    /\ \A k \in 1..Len(out.primes) : out.primes[k] # 2 * Pow2(out.c_exp) - 1

\* ---------------------------------------------------------------------
\* The low-level session with up to two hidden errors and with erasures
\* reported in any order.

MaxErrataNsym == 4
MaxErrataErase == 2

ErrataMsgs == {<<5>>, <<0, 5>>}

\* The channel changes the symbol at position p, telling nobody; the
\* damage stays within what nsym check symbols can repair.
Corrupt(p, d) ==
    /\ pc = "sent"
    /\ erase_pos = <<>>
    /\ p \in 0..(Len(rcv) - 1)
    /\ \A q \in errs : q < p
    /\ Damage + 2 <= par.nsym
    /\ rcv' = [rcv EXCEPT ![p + 1] = Xor(@, d)]
    /\ errs' = errs \cup {p}
    /\ UNCHANGED <<codec_vars, par_vars, thr_vars>>
    /\ UNCHANGED <<gf_exp, gf_log, field_charac, pc, par, mes, mesecc, erase_pos,
                   only_erasures, out>>

\* The channel overwrites position p with v; the caller lists p as an
\* erasure, in the order the reports come in.
Report(p, v) ==
    /\ pc = "sent"
    /\ p \in 0..(Len(rcv) - 1)
    /\ p \notin errs
    /\ p \notin Erased
    /\ Len(erase_pos) < MaxErrataErase
    /\ Damage + 1 <= par.nsym
    /\ rcv' = [rcv EXCEPT ![p + 1] = v]
    /\ erase_pos' = Append(erase_pos, p)
    /\ UNCHANGED <<codec_vars, par_vars, thr_vars>>
    /\ UNCHANGED <<gf_exp, gf_log, field_charac, pc, par, mes, mesecc, errs,
                   only_erasures, out>>

NextErrata ==
    \/ pc = "start" /\ \E p \in Params : InitTables(p)
    \/ pc = "tables" /\ \E n \in 0..MaxErrataNsym, m \in ErrataMsgs : Encode(n, m)
    \/ pc = "sent" /\ \E p \in 0..(Len(rcv) - 1), d \in ErrDeltas : Corrupt(p, d)
    \/ pc = "sent" /\ \E p \in 0..(Len(rcv) - 1) : Report(p, 7)
    \/ pc = "sent" /\ \E flag \in BOOLEAN : Decode(flag)

SpecErrata == Init /\ [][NextErrata]_vars

\* The part of the returned errata list after the supplied erasures.
FoundErrors ==
    SubSeq(out.errata_pos, Len(erase_pos) + 1, Len(out.errata_pos))

\* C22: when the chunk decoder succeeds on a codeword with v supplied
\* erasures and e hidden errors, 2e + v <= nsym, the returned errata list
\* is the erasure positions in the caller's order followed by exactly the
\* e corrupted positions in strictly descending order, all of them indices
\* into the chunk, none listed twice.
C22_ErrataPositions ==
    (pc = "decoded" /\ out.status = "ok" /\ Damage <= par.nsym) =>
        /\ Len(out.errata_pos) = Len(erase_pos) + Cardinality(errs)
        /\ SubSeq(out.errata_pos, 1, Len(erase_pos)) = erase_pos
        /\ { FoundErrors[k] : k \in 1..Len(FoundErrors) } = errs
        /\ \A k \in 1..(Len(FoundErrors) - 1) :
              FoundErrors[k] > FoundErrors[k + 1]
        /\ \A k \in 1..Len(out.errata_pos) :
              out.errata_pos[k] \in 0..(Len(rcv) - 1)
        /\ \A k \in 1..Len(out.errata_pos), h \in 1..Len(out.errata_pos) :
              k # h => out.errata_pos[k] # out.errata_pos[h]

\* Two hidden errors found, and two erasures reported out of order
\* together with no error.
C22_Witness ==
    /\ pc = "decoded"
    /\ out.status = "ok"
    /\ Cardinality(errs) = 2
    /\ Len(out.errata_pos) = 2
    /\ out.errata_pos[1] > out.errata_pos[2]

C22_WitnessOrder ==
    /\ pc = "decoded"
    /\ out.status = "ok"
    /\ Len(erase_pos) = 2
    /\ erase_pos[1] > erase_pos[2]
    /\ Cardinality(errs) = 1
    /\ Len(out.errata_pos) = 3

\* ---------------------------------------------------------------------
\* Properties of the chunk decoder's treatment of erased symbols, stated
\* over SpecRaw.

\* The chunks that equal rcv everywhere except at the positions listed in
\* erase_pos.
Alternatives ==
    { w \in [1..Len(rcv) -> RawSyms] :
        \A k \in 1..Len(rcv) : (k - 1) \notin Erased => w[k] = rcv[k] }

\* The error locator rs_correct_msg computes for the chunk msg_in.
ErrorLocator(msg_in) ==
    LET msg_out == ZeroFill(msg_in, erase_pos)
        synd == rs_calc_syndromes(msg_out, par.nsym, par.fcr, par.generator)
        fsynd == rs_forney_syndromes(synd, erase_pos, Len(msg_out),
                                     par.generator)
    IN  rs_find_error_locator(fsynd, par.nsym, <<>>, Len(erase_pos))

\* C23: two received chunks that are equal everywhere except at positions
\* listed in erase_pos give, with the same erase_pos, the same error
\* locator and the same outcome: the same message, parity and errata
\* positions, or a failure in both.
C23_ErasureValueIndependence ==
    pc = "decoded" =>
        \A w \in Alternatives :
            /\ rs_correct_msg(w, par.nsym, par.fcr, par.generator, erase_pos,
                              only_erasures) = out
            /\ Len(erase_pos) <= par.nsym
                  => ErrorLocator(w) = ErrorLocator(rcv)

\* A chunk with a non-zero symbol at an erased position, repaired at that
\* position and at one more the decoder found.
C23_Witness ==
    /\ pc = "decoded"
    /\ out.status = "ok"
    /\ Len(erase_pos) = 1
    /\ rcv[erase_pos[1] + 1] # 0
    /\ Len(out.errata_pos) = 2
    /\ Cardinality(Alternatives) > 1

\* ---------------------------------------------------------------------
\* The frame of RSCodec.decode, stated over SpecCodec.  The caller's
\* buffers are stream and stream_erase; the call was entered with them.

LocatorCalled ==
    /\ pc = "decoded"
    /\ ~only_erasures
    /\ Len(rcv) <= field_charac
    /\ Len(erase_pos) <= par.nsym
    /\ SeqMax(rs_calc_syndromes(ZeroFill(rcv, erase_pos), par.nsym, par.fcr,
                                par.generator)) > 0

LocatorDegree == Len(ErrorLocator(rcv).err_loc) - 1

\* C26: in the Forney-syndrome decode path, with v <= nsym erasures,
\* rs_find_error_locator either raises ReedSolomonError or returns an error
\* locator, leading zeros stripped, of degree at most floor((nsym - v) / 2).
C26_DegreeBound ==
    (LocatorCalled /\ ErrorLocator(rcv).status = "ok") =>
        LocatorDegree <= (par.nsym - Len(erase_pos)) \div 2

\* Without erasures the bound holds.
C26_DegreeBoundNoErasures ==
    (LocatorCalled /\ erase_pos = <<>> /\ ErrorLocator(rcv).status = "ok") =>
        LocatorDegree <= par.nsym \div 2

\* With v erasures the returned locator has degree at most
\* v + floor((nsym - v) / 2), which is what the final test lets through,
\* and at most nsym - v, the number of iterations.
C26_DegreeBoundAsTested ==
    (LocatorCalled /\ ErrorLocator(rcv).status = "ok") =>
        /\ LocatorDegree <=
               Len(erase_pos) + (par.nsym - Len(erase_pos)) \div 2
        /\ LocatorDegree <= par.nsym - Len(erase_pos)

\* A locator of degree 2 returned with one erasure and three check
\* symbols, where floor((nsym - v) / 2) is 1.
C26_LocatorTooLong ==
    /\ LocatorCalled
    /\ par.nsym = 3
    /\ Len(erase_pos) = 1
    /\ ErrorLocator(rcv).status = "ok"
    /\ LocatorDegree = 2

\* ---------------------------------------------------------------------
\* The decoder that does not use the Forney syndromes.

\* Reed-Solomon main decoding function, without the modified Forney
\* syndromes: Berlekamp-Massey runs on the full syndrome, seeded with the
\* erasure locator.  With an empty erase_pos the locator stays None, and
\* only_erasures then slices None.
rs_correct_msg_nofsynd(msg_in, nsym, fcr, generator, erase_pos_in, only_eras) ==
    LET msg_out == ZeroFill(msg_in, erase_pos_in)
        synd == rs_calc_syndromes(msg_out, nsym, fcr, generator)
        erase_count == Len(erase_pos_in)
        erase_pos_reversed ==
            AsSeq([i \in 1..Len(erase_pos_in) |->
                      Len(msg_out) - 1 - erase_pos_in[i]])
        erase_loc == IF erase_pos_in # <<>>
                     THEN rs_find_errata_locator(erase_pos_reversed, generator)
                     ELSE <<>>
        loc == IF only_eras
               THEN IF erase_pos_in = <<>> THEN Raise("TypeError")
                    ELSE [status |-> "ok", err_loc |-> erase_loc]
               ELSE rs_find_error_locator(synd, nsym, erase_loc, erase_count)
        found == IF loc.status # "ok" THEN loc
                 ELSE rs_find_errors(Reverse(loc.err_loc), Len(msg_out), generator)
        fixed == rs_correct_errata(msg_out, synd, found.err_pos, fcr, generator)
    IN  IF Len(msg_in) > field_charac THEN Raise("ValueError")
        ELSE IF Len(erase_pos_in) > nsym THEN Raise("ReedSolomonError")
        ELSE IF SeqMax(synd) = 0 THEN Returned(msg_out, nsym, <<>>)
        ELSE IF found.status # "ok" THEN Raise(found.status)
        ELSE IF fixed.status # "ok" THEN Raise(fixed.status)
        ELSE IF NotRepaired(fixed.msg, nsym, fcr, generator)
             THEN Raise("ReedSolomonError")
        ELSE Returned(fixed.msg, nsym, erase_pos_in \o found.err_pos)

\* rs_correct_msg_nofsynd called with the arguments rs_correct_msg has just
\* been called with; out keeps both outcomes.
DecodeNofsynd ==
    /\ pc = "decoded"
    /\ out' = [forney |-> out,
               nofsynd |-> rs_correct_msg_nofsynd(rcv, par.nsym, par.fcr,
                               par.generator, erase_pos, only_erasures)]
    /\ pc' = "both"
    /\ UNCHANGED <<codec_vars, par_vars, thr_vars>>
    /\ UNCHANGED <<gf_exp, gf_log, field_charac, par, mes, mesecc, rcv,
                   erase_pos, errs, only_erasures>>

NextBoth ==
    \/ NextRaw
    \/ DecodeNofsynd

SpecBoth == Init /\ [][NextBoth]_vars

\* C30: for every received chunk, erasure list and only_erasures flag,
\* rs_correct_msg_nofsynd and rs_correct_msg have the same outcome: both
\* fail, or both succeed with the same corrected message, the same
\* corrected parity and the same errata positions.
C30_VariantEquivalence ==
    pc = "both" =>
        IF out.forney.status = "ok" THEN out.nofsynd = out.forney
        ELSE out.nofsynd.status # "ok"

\* Without erasures the two variants have the same outcome.
C30_EquivalentWithoutErasures ==
    (pc = "both" /\ erase_pos = <<>>) =>
        IF out.forney.status = "ok" THEN out.nofsynd = out.forney
        ELSE out.nofsynd.status # "ok"

\* When both variants succeed they return the same message and parity.
C30_SameRepair ==
    (pc = "both" /\ out.forney.status = "ok" /\ out.nofsynd.status = "ok") =>
        /\ out.nofsynd.rmes = out.forney.rmes
        /\ out.nofsynd.recc = out.forney.recc

\* Both variants repaired a chunk with one erasure; the variant without
\* Forney syndromes lists the erased position twice.
C30_ErasureListedTwice ==
    /\ pc = "both"
    /\ Len(erase_pos) = 1
    /\ out.forney.status = "ok"
    /\ out.nofsynd.status = "ok"
    /\ out.forney.errata_pos = erase_pos
    /\ out.nofsynd.errata_pos = erase_pos \o erase_pos

\* A clean chunk with an erasure: the variant without Forney syndromes
\* returns an empty errata list.
C30_CleanErasureDropped ==
    /\ pc = "both"
    /\ Len(erase_pos) = 1
    /\ out.forney.status = "ok"
    /\ out.forney.errata_pos = erase_pos
    /\ out.nofsynd.status = "ok"
    /\ out.nofsynd.errata_pos = <<>>

\* One erasure and one error with two check symbols: the Forney variant
\* returns a codeword, the other variant raises.
C30_VerdictsDiffer ==
    /\ pc = "both"
    /\ par.nsym = 2
    /\ Len(erase_pos) = 1
    /\ out.forney.status = "ok"
    /\ Len(out.forney.errata_pos) = 2
    /\ out.nofsynd.status = "ReedSolomonError"

====
